---- MODULE Spec2Model ----
(***************************************************************************)
(* Verification model of the ssv node:                                     *)
(*   - the message broker (network/msgqueue), in its two implementations:  *)
(*     the map-based one (queue / allMessages) and the TTL-cache-based one *)
(*     (q / msgs), driven in lockstep by the same calls;                   *)
(*   - the change-round partial-quorum pipeline of the IBFT instance;      *)
(*   - the registry synchronizer (eth1.SyncEth1Events);                    *)
(*   - the validator share (validator/storage/share.go) and the share      *)
(*     store (validator/storage/storage.go);                               *)
(*   - the IBFT instances of a committee of four;                          *)
(*   - the client of the decided-history sync protocol;                    *)
(*   - concurrent AddMessage calls on the map-based broker;                *)
(*   - p2pNetwork.WaitForMinPeers and the topic map of the p2p network     *)
(*     with its listen goroutines (network/p2p/p2p.go);                    *)
(*   - Share.PubKeysByID and Share.VerifySignedMessage;                    *)
(*   - exporter.triggerValidator and the main execution queue;             *)
(*   - the instance's event queue (package eventqueue) under concurrent    *)
(*     Add, Pop and ClearAndStop calls;                                    *)
(*   - exporter.setup with its retried decided sync;                       *)
(*   - the quorums of a committee (ThresholdSize, PartialThresholdSize).   *)
(* Each subsystem has its own specification (SpecBroker, SpecBrokerLive,   *)
(* SpecPQ, SpecSync, SpecSyncLive, SpecShare, SpecStore, SpecIBFT,         *)
(* SpecIBFTLive, SpecDecidedSync, SpecBrokerConc, SpecWait, SpecTopics,    *)
(* SpecVerify, SpecTrigger, SpecEventQueue, SpecSetup, SpecQuorum) over    *)
(* the shared variable tuple; the variables of the other subsystems stay   *)
(* at their initial values.                                                *)
(***************************************************************************)
EXTENDS Integers, Sequences, FiniteSets, TLC

VARIABLES
    \* ---- message broker (both implementations) ----
    queue,        \* map-based: index -> list of containers (absent key = nil)
    allMessages,  \* map-based: container id -> container
    q,            \* cache-based: index -> list of containers
    msgs,         \* cache-based: container id -> container
    nextId,       \* stands for uuid.New(): the next fresh container id
    purged,       \* history: a PurgeIndexedMessages call has happened
    lastOp,       \* history: the last broker call, its arguments and results
    \* ---- IBFT instance (partial-quorum pipeline) ----
    round,        \* State().Round
    startRound,   \* history: the round before the last pipeline run
    pqBucket,     \* history: the change-round-all bucket the last run read
    \* ---- registry synchronizer ----
    storedOffset,   \* SyncOffsetStorage: the persisted offset, NoOffset if none
    head,           \* the client's current block
    pc,             \* position of SyncEth1Events
    providedOffset, \* the syncOffset argument of the running call, Nil if nil
    syncOffset,     \* the local syncOffset after determineSyncOffset
    cn,             \* the subscription channel: events in flight
    syncEndedEvent, \* the SyncEndedEvent the listener goroutine stored
    syncWgDone,     \* the listener goroutine has returned
    execQueue,      \* tasks waiting in the execution queue
    qErrors,        \* blocks whose handler returned an error (q.Errors())
    result,         \* what the outermost call returned
    delivered,      \* history: blocks of the events the client published
    handled,        \* history: blocks of the events the handler was run for
    storedAtCall,   \* history: the persisted offset when StartEth1 called
    \* ---- validator share (Serialize / Deserialize / thresholds) ----
    share,        \* the Share the calls are made on
    obj,          \* the basedb.Obj written for it: key and Serialize() value
    shareOut,     \* what Deserialize(obj) returned
    sizes,        \* what ThresholdSize() and PartialThresholdSize() returned
    \* ---- share store (validator/storage/storage.go) ----
    db,           \* the shares collection of the database: key -> value
    lock,         \* Collection.lock: the goroutine holding it exclusively, 0 if none
    tpc,          \* per goroutine: its position in the call it is running
    tloc,         \* per goroutine: the locals of that call
    stale,        \* history: goroutines whose read predates a CleanAllShares
    storeOp,      \* history: the last call that returned, its arguments and results
    \* ---- IBFT instances of one committee (one lambda, one sequence number) ----
    instances,    \* per node: the instance state (stage, round, prepared, input, decided)
    net,          \* the messages the brokers hold: message -> number of copies
    decidedCh,    \* per node: the certificates emitted on the decided channel
    injected,     \* number of messages the environment has added
    \* ---- decided-history sync of one lambda ----
    decidedStore, \* the sequence numbers appended to the decided store, in order
    highestKnown, \* highest-known-{lambda}
    startHeight,  \* history: the local height when the sync started
    peerHeight,   \* per peer: the height it advertises
    usablePeers,  \* the peers not dropped
    dsPc,         \* position of the sync client
    dsPeer,       \* the peer the client pulls from
    dsMax,        \* the maximum advertised height it picked
    dsFrom,       \* the local height when it picked that maximum
    lastBatch,    \* history: the last batch a peer answered with
    \* ---- broker shared by concurrent listeners ----
    msgMutex,     \* q.msgMutex: the listener holding it, 0 if none
    lpc,          \* per listener: its position in AddMessage
    lloc,         \* per listener: the locals of its AddMessage call
    added,        \* history: id -> container of the AddMessage calls that returned
    popped,       \* history: the ids PopMessage returned, in order
    \* ---- Share.VerifySignedMessage ----
    vShare,       \* Share.Committee of the share the calls are made on
    signedMsg,    \* the proto.SignedMessage passed
    pksOut,       \* what PubKeysByID(msg.SignerIds) returned
    verifyOut,    \* what VerifySignedMessage(msg) returned
    \* ---- WaitForMinPeers ----
    wStart,       \* the start argument
    wLimit,       \* the limit argument
    wStopAtLimit, \* the stopAtLimit argument
    wMin,         \* the min argument
    interval,     \* the local interval
    wpc,          \* position of the call, or how it returned
    wN,           \* the peer count of the last check
    wSteps,       \* number of peer checks made
    wCtxDone,     \* ctx.Ctx is done
    \* ---- validator topics of the p2p network ----
    cfgTopics,          \* the keys of n.cfg.Topics
    psSubscribedTopics, \* n.psSubscribedTopics
    psTopicsLock,       \* n.psTopicsLock: its writer and its readers
    ctxDone,            \* n.ctx is done
    listeners,          \* per topic: the position of its listen goroutine
    cancels,            \* history: per topic, the sub.Cancel() calls made
    callers,            \* the callers of SubscribeToValidatorNetwork and getTopic
    \* ---- main execution queue of the exporter ----
    mainWaiting,     \* exp.mainQueue: the keys of the tasks waiting
    mainRunning,     \* exp.mainQueue: the key of the task running
    tgPc,            \* per caller of triggerValidator: its position and key
    validatorShares, \* public keys with a share in the validator storage
    ibftSyncEnabled, \* exp.ibftSyncEnabled
    \* ---- event queue (eventqueue.Queue) ----
    eqStop,       \* q.stop
    eqQueue,      \* q.queue
    eqLock,       \* q.lock: the goroutine holding it, 0 if none
    eqPc,         \* per goroutine: its position in the call it is running
    eqLoc,        \* per goroutine: the call, its argument and its locals
    eqNext,       \* the next fresh event
    eqAccepted,   \* history: the events whose Add returned true, in order
    eqReturned,   \* history: the events Pop returned, in order
    eqLast,       \* history: the last call that returned and what it saw
    \* ---- exporter.setup ----
    suPc,                \* position of exporter.setup
    suPk,                \* public key of the share it is called with
    suSyncs,             \* the results of its decidedReader.Sync() calls
    suResult,            \* what it returned
    networkReadersQueue, \* keys of the tasks given to exp.networkReadersQueue
    decidedReadersQueue, \* keys of the tasks given to exp.decidedReadersQueue
    suQueued,            \* history: this setup queued decidedReader.Start
    \* ---- quorums of a committee ----
    qrN,          \* the committee size
    qrSizes,      \* what ThresholdSize() and PartialThresholdSize() returned
    signersA,     \* a signer set of ThresholdSize members of the committee
    signersB      \* another one

brokerVars == <<queue, allMessages, q, msgs, nextId, purged, lastOp>>
pqVars == <<round, startRound, pqBucket>>
syncVars == <<storedOffset, head, pc, providedOffset, syncOffset, cn,
              syncEndedEvent, syncWgDone, execQueue, qErrors, result,
              delivered, handled, storedAtCall>>
shareVars == <<share, obj, shareOut, sizes>>
storeVars == <<db, lock, tpc, tloc, stale, storeOp>>
ibftVars == <<instances, net, decidedCh, injected>>
dsyncVars == <<decidedStore, highestKnown, startHeight, peerHeight, usablePeers, dsPc, dsPeer, dsMax, dsFrom, lastBatch>>
concVars == <<msgMutex, lpc, lloc, added, popped>>
verifyVars == <<vShare, signedMsg, pksOut, verifyOut>>
waitVars == <<wStart, wLimit, wStopAtLimit, wMin, interval, wpc, wN, wSteps, wCtxDone>>
topicVars == <<cfgTopics, psSubscribedTopics, psTopicsLock, ctxDone, listeners, cancels, callers>>
execVars == <<mainWaiting, mainRunning, tgPc, validatorShares, ibftSyncEnabled>>
evqVars == <<eqStop, eqQueue, eqLock, eqPc, eqLoc, eqNext, eqAccepted, eqReturned, eqLast>>
setupVars == <<suPc, suPk, suSyncs, suResult, networkReadersQueue, decidedReadersQueue, suQueued>>
quorumVars == <<qrN, qrSizes, signersA, signersB>>
moreVars == <<concVars, verifyVars, waitVars, topicVars, execVars, evqVars, setupVars, quorumVars>>
\* the variables of the subsystems other than broker, instance and synchronizer
laterVars == <<shareVars, storeVars, ibftVars, dsyncVars, moreVars>>
vars == <<queue, allMessages, q, msgs, nextId, purged, lastOp,
          round, startRound, pqBucket,
          storedOffset, head, pc, providedOffset, syncOffset, cn,
          syncEndedEvent, syncWgDone, execQueue, qErrors, result,
          delivered, handled, storedAtCall,
          share, obj, shareOut, sizes,
          db, lock, tpc, tloc, stale, storeOp,
          instances, net, decidedCh, injected,
          decidedStore, highestKnown, startHeight, peerHeight, usablePeers, dsPc, dsPeer, dsMax, dsFrom, lastBatch,
          msgMutex, lpc, lloc, added, popped,
          vShare, signedMsg, pksOut, verifyOut,
          wStart, wLimit, wStopAtLimit, wMin, interval, wpc, wN, wSteps, wCtxDone,
          cfgTopics, psSubscribedTopics, psTopicsLock, ctxDone, listeners, cancels, callers,
          mainWaiting, mainRunning, tgPc, validatorShares, ibftSyncEnabled,
          eqStop, eqQueue, eqLock, eqPc, eqLoc, eqNext, eqAccepted, eqReturned, eqLast,
          suPc, suPk, suSyncs, suResult, networkReadersQueue, decidedReadersQueue, suQueued,
          qrN, qrSizes, signersA, signersB>>

(***************************************************************************)
(* Bounds                                                                  *)
(***************************************************************************)
MaxMsgs == 2      \* AddMessage calls explored per broker
PQMaxMsgs == 3    \* ChangeRound messages added to a fresh instance
PQMaxRound == 2   \* highest start round / message round of a fresh instance
PQMaxSigner == 3  \* signers sending to a fresh instance
MaxAhead == 2     \* blocks explored above the contract genesis block
MaxLogs == 2      \* logs one client.Sync call returns

(***************************************************************************)
(* Small helpers                                                           *)
(***************************************************************************)
Range(s) == {s[i] : i \in DOMAIN s}

Put(f, k, v) == [x \in DOMAIN f \cup {k} |-> IF x = k THEN v ELSE f[x]]

Drop(f, k) == [x \in DOMAIN f \ {k} |-> f[x]]

EmptyMap == [x \in {} |-> 0]

(***************************************************************************)
(* Registry synchronizer: values                                           *)
(***************************************************************************)
\* prod contract genesis, 0x4e706f
defaultSyncOffset == 5140591

DefaultSyncOffset == defaultSyncOffset

Blocks == (defaultSyncOffset - 1)..(defaultSyncOffset + MaxAhead)

Nil == -1        \* a nil *SyncOffset
NoOffset == -1   \* nothing persisted

SyncEndedEvent(logs, success) == [logs |-> logs, success |-> success]

\* the zero value of var syncEndedEvent
NoSyncEnded == SyncEndedEvent(<<>>, FALSE)

(***************************************************************************)
(* network.Message and the index functions                                 *)
(***************************************************************************)
IBFTType == "IBFT"
SignatureType == "Signature"
DecidedType == "Decided"
SyncType == "Sync"
UnknownType == "Unknown"

Message(t, it, r, s) == [type |-> t, ibftType |-> it, round |-> r, signer |-> s]

ChangeRoundMsg(r, s) == Message(IBFTType, "ChangeRound", r, s)

\* An index key; lambda and sequence number are fixed to one instance.
Key(fam, r, it) == [fam |-> fam, round |-> r, ibftType |-> it]

IBFTMessageIndexKey(r, it) == Key("ibft", r, it)
IBFTAllRoundChangeIndexKey == Key("change-round-all", 0, "-")
SigRoundIndexKey == Key("sig", 0, "-")
DecidedIndexKey == Key("decided", 0, "-")
SyncIndexKey == Key("sync", 0, "-")

iBFTMessageIndex(m) ==
    IF m.type = IBFTType THEN <<IBFTMessageIndexKey(m.round, m.ibftType)>> ELSE <<>>

iBFTAllRoundChangeIndex(m) ==
    IF m.type = IBFTType /\ m.ibftType = "ChangeRound"
    THEN <<IBFTAllRoundChangeIndexKey>> ELSE <<>>

sigMessageIndex(m) == IF m.type = SignatureType THEN <<SigRoundIndexKey>> ELSE <<>>

decidedMessageIndex(m) == IF m.type = DecidedType THEN <<DecidedIndexKey>> ELSE <<>>

syncMessageIndex(m) == IF m.type = SyncType THEN <<SyncIndexKey>> ELSE <<>>

\* the loop over q.indexFuncs in AddMessage
indexFuncs(m) ==
    iBFTMessageIndex(m) \o iBFTAllRoundChangeIndex(m) \o sigMessageIndex(m)
      \o decidedMessageIndex(m) \o syncMessageIndex(m)

messageContainer(id, m) == [id |-> id, msg |-> m, indexes |-> indexFuncs(m)]

\* messages the network listeners push in the broker specification
BrokerMsgs ==
    { ChangeRoundMsg(1, 1), ChangeRoundMsg(2, 1),
      Message(SignatureType, "-", 1, 1),
      Message(UnknownType, "-", 1, 1) }

\* indexes the instance asks for
BrokerKeys ==
    { IBFTMessageIndexKey(1, "ChangeRound"), IBFTMessageIndexKey(2, "ChangeRound"),
      IBFTAllRoundChangeIndexKey, SigRoundIndexKey }

Ids == 1..(MaxMsgs + 1)
NoId == 0

(***************************************************************************)
(* Map-based broker                                                        *)
(***************************************************************************)
Bucket(qu, idx) == IF idx \in DOMAIN qu THEN qu[idx] ELSE <<>>

Without(s, id) == SelectSeq(s, LAMBDA c : c.id # id)

MapBroker(qu, all) == [queue |-> qu, allMessages |-> all]

\* variant: the container is put at the front of each bucket
RECURSIVE appendToIndexes_front(_, _, _)
appendToIndexes_front(qu, indexes, c) ==
    IF indexes = <<>> THEN qu
    ELSE appendToIndexes_front(
             Put(qu, Head(indexes), <<c>> \o Bucket(qu, Head(indexes))),
             Tail(indexes), c)

RECURSIVE appendToIndexes(_, _, _)
appendToIndexes(qu, indexes, c) ==
    IF indexes = <<>> THEN qu
    ELSE appendToIndexes(Put(qu, Head(indexes), Append(Bucket(qu, Head(indexes)), c)),
                         Tail(indexes), c)

MapAddMessage(b, m, id) ==
    LET c == messageContainer(id, m) IN
    MapBroker(appendToIndexes(b.queue, c.indexes, c), Put(b.allMessages, id, c))

RECURSIVE filterIndexes(_, _, _)
filterIndexes(qu, indexes, id) ==
    IF indexes = <<>> THEN qu
    ELSE filterIndexes(Put(qu, Head(indexes), Without(Bucket(qu, Head(indexes)), id)),
                       Tail(indexes), id)

\* variant: only the first index of the container is cleaned
MapDeleteMessageFromAllIndexes_firstOnly(b, indexes, id) ==
    MapBroker(filterIndexes(b.queue, SubSeq(indexes, 1, 1), id), Drop(b.allMessages, id))

MapDeleteMessageFromAllIndexes(b, indexes, id) ==
    MapBroker(filterIndexes(b.queue, indexes, id), Drop(b.allMessages, id))

\* the container PopMessage picks
MapPopContainer(b, index) == Bucket(b.queue, index)[1]

MapPopMessage(b, index) ==
    IF Len(Bucket(b.queue, index)) > 0
    THEN LET c == MapPopContainer(b, index) IN
         [b |-> MapDeleteMessageFromAllIndexes(b, c.indexes, c.id), id |-> c.id]
    ELSE [b |-> b, id |-> NoId]

MapMessagesForIndex(b, index) == {c.id : c \in Range(Bucket(b.queue, index))}

MapMsgCount(b, index) == Len(Bucket(b.queue, index))

\* variant: only the first id of the list is deleted
MapDeleteMessagesWithIds_first(b, ids) ==
    IF ids = <<>> THEN b
    ELSE IF Head(ids) \in DOMAIN b.allMessages
         THEN MapDeleteMessageFromAllIndexes(b, b.allMessages[Head(ids)].indexes, Head(ids))
         ELSE b

RECURSIVE MapDeleteMessagesWithIds(_, _)
MapDeleteMessagesWithIds(b, ids) ==
    IF ids = <<>> THEN b
    ELSE LET id == Head(ids)
             nb == IF id \in DOMAIN b.allMessages
                   THEN MapDeleteMessageFromAllIndexes(b, b.allMessages[id].indexes, id)
                   ELSE b
         IN MapDeleteMessagesWithIds(nb, Tail(ids))

\* variant: purge evicts the purged containers from every index and the lookup
RECURSIVE MapPurgeIndexedMessages_evict(_, _)
MapPurgeIndexedMessages_evict(b, index) ==
    IF Bucket(b.queue, index) = <<>>
    THEN MapBroker(Put(b.queue, index, <<>>), b.allMessages)
    ELSE LET c == Bucket(b.queue, index)[1] IN
         MapPurgeIndexedMessages_evict(
             MapBroker(filterIndexes(b.queue, c.indexes, c.id), Drop(b.allMessages, c.id)),
             index)

\* variant: purge leaves the bucket as it is
MapPurgeIndexedMessages_keep(b, index) == b

MapPurgeIndexedMessages(b, index) ==
    MapBroker(Put(b.queue, index, <<>>), b.allMessages)

(***************************************************************************)
(* Cache-based broker (no cache entry expires within the explored calls)   *)
(***************************************************************************)
CacheBroker(qc, mc) == [q |-> qc, msgs |-> mc]

RECURSIVE cacheAppendToIndexes(_, _, _)
cacheAppendToIndexes(qc, indexes, c) ==
    IF indexes = <<>> THEN qc
    ELSE cacheAppendToIndexes(
             Put(qc, Head(indexes), Append(Bucket(qc, Head(indexes)), c)),
             Tail(indexes), c)

CacheAddMessage(b, m, id) ==
    LET c == messageContainer(id, m) IN
    CacheBroker(cacheAppendToIndexes(b.q, c.indexes, c), Put(b.msgs, id, c))

RECURSIVE cacheFilterIndexes(_, _, _)
cacheFilterIndexes(qc, indexes, id) ==
    IF indexes = <<>> THEN qc
    ELSE LET indx == Head(indexes)
             nq == IF indx \in DOMAIN qc
                   THEN Put(qc, indx, Without(qc[indx], id))
                   ELSE qc
         IN cacheFilterIndexes(nq, Tail(indexes), id)

CacheDeleteMessageFromAllIndexes(b, indexes, id) ==
    CacheBroker(cacheFilterIndexes(b.q, indexes, id), Drop(b.msgs, id))

CachePopContainer(b, index) == b.q[index][1]

CachePopMessage(b, index) ==
    IF index \in DOMAIN b.q /\ Len(b.q[index]) > 0
    THEN LET c == CachePopContainer(b, index) IN
         [b |-> CacheDeleteMessageFromAllIndexes(b, c.indexes, c.id), id |-> c.id]
    ELSE [b |-> b, id |-> NoId]

CacheMessagesForIndex(b, index) ==
    IF index \in DOMAIN b.q THEN {c.id : c \in Range(b.q[index])} ELSE {}

CacheMsgCount(b, index) == IF index \in DOMAIN b.q THEN Len(b.q[index]) ELSE 0

RECURSIVE CacheDeleteMessagesWithIds(_, _)
CacheDeleteMessagesWithIds(b, ids) ==
    IF ids = <<>> THEN b
    ELSE LET id == Head(ids)
             nb == IF id \in DOMAIN b.msgs
                   THEN CacheDeleteMessageFromAllIndexes(b, b.msgs[id].indexes, id)
                   ELSE b
         IN CacheDeleteMessagesWithIds(nb, Tail(ids))

\* variant: purge evicts the purged containers from every index and the lookup
RECURSIVE CachePurgeIndexedMessages_evict(_, _)
CachePurgeIndexedMessages_evict(b, index) ==
    IF Bucket(b.q, index) = <<>>
    THEN CacheBroker(Put(b.q, index, <<>>), b.msgs)
    ELSE LET c == Bucket(b.q, index)[1] IN
         CachePurgeIndexedMessages_evict(
             CacheBroker(cacheFilterIndexes(b.q, c.indexes, c.id), Drop(b.msgs, c.id)),
             index)

CachePurgeIndexedMessages(b, index) ==
    CacheBroker(Put(b.q, index, <<>>), b.msgs)

(***************************************************************************)
(* Broker actions: every call is applied to both implementations           *)
(***************************************************************************)
Op(op, key, ids, ret, retC) ==
    [op |-> op, key |-> key, ids |-> ids, ret |-> ret, retC |-> retC]

NoKey == Key("-", 0, "-")

Ret(id, n, peek) == [id |-> id, n |-> n, peek |-> peek]
NoRet == Ret(NoId, 0, {})

BrokerInit ==
    /\ queue = EmptyMap
    /\ allMessages = EmptyMap
    /\ q = EmptyMap
    /\ msgs = EmptyMap
    /\ nextId = 1
    /\ purged = FALSE
    /\ lastOp = Op("new", NoKey, <<>>, NoRet, NoRet)
    /\ round = 0
    /\ startRound = 0
    /\ pqBucket = <<>>
    /\ storedOffset = NoOffset
    /\ head = defaultSyncOffset
    /\ pc = "idle"
    /\ providedOffset = Nil
    /\ syncOffset = Nil
    /\ cn = <<>>
    /\ syncEndedEvent = NoSyncEnded
    /\ syncWgDone = FALSE
    /\ execQueue = <<>>
    /\ qErrors = {}
    /\ result = "none"
    /\ delivered = {}
    /\ handled = {}
    /\ storedAtCall = NoOffset
    /\ share = <<>>
    /\ obj = <<>>
    /\ shareOut = <<>>
    /\ sizes = <<>>
    /\ db = <<>>
    /\ lock = 0
    /\ tpc = <<>>
    /\ tloc = <<>>
    /\ stale = {}
    /\ storeOp = <<>>
    /\ instances = <<>>
    /\ net = <<>>
    /\ decidedCh = <<>>
    /\ injected = 0
    /\ decidedStore = <<>>
    /\ highestKnown = 0
    /\ startHeight = 0
    /\ peerHeight = <<>>
    /\ usablePeers = {}
    /\ dsPc = "idle"
    /\ dsPeer = 0
    /\ dsMax = 0
    /\ dsFrom = 0
    /\ lastBatch = <<>>
    /\ msgMutex = 0
    /\ lpc = <<>>
    /\ lloc = <<>>
    /\ added = <<>>
    /\ popped = <<>>
    /\ vShare = <<>>
    /\ signedMsg = <<>>
    /\ pksOut = <<>>
    /\ verifyOut = <<>>
    /\ wStart = 0
    /\ wLimit = 0
    /\ wStopAtLimit = FALSE
    /\ wMin = 0
    /\ interval = 0
    /\ wpc = "idle"
    /\ wN = 0
    /\ wSteps = 0
    /\ wCtxDone = FALSE
    /\ cfgTopics = {}
    /\ psSubscribedTopics = <<>>
    /\ psTopicsLock = <<>>
    /\ ctxDone = FALSE
    /\ listeners = <<>>
    /\ cancels = <<>>
    /\ callers = <<>>
    /\ mainWaiting = <<>>
    /\ mainRunning = 0
    /\ tgPc = <<>>
    /\ validatorShares = {}
    /\ ibftSyncEnabled = FALSE
    /\ eqStop = FALSE
    /\ eqQueue = <<>>
    /\ eqLock = 0
    /\ eqPc = <<>>
    /\ eqLoc = <<>>
    /\ eqNext = 0
    /\ eqAccepted = <<>>
    /\ eqReturned = <<>>
    /\ eqLast = <<>>
    /\ suPc = "idle"
    /\ suPk = 0
    /\ suSyncs = <<>>
    /\ suResult = "none"
    /\ networkReadersQueue = {}
    /\ decidedReadersQueue = {}
    /\ suQueued = FALSE
    /\ qrN = 0
    /\ qrSizes = <<>>
    /\ signersA = {}
    /\ signersB = {}

SetBrokers(mb, cb) ==
    /\ queue' = mb.queue
    /\ allMessages' = mb.allMessages
    /\ q' = cb.q
    /\ msgs' = cb.msgs

AddMessage(m) ==
    /\ SetBrokers(MapAddMessage(MapBroker(queue, allMessages), m, nextId),
                  CacheAddMessage(CacheBroker(q, msgs), m, nextId))
    /\ nextId' = nextId + 1
    /\ lastOp' = Op("add", NoKey, <<nextId>>, NoRet, NoRet)
    /\ UNCHANGED purged

PopMessage(index) ==
    LET r == MapPopMessage(MapBroker(queue, allMessages), index)
        rc == CachePopMessage(CacheBroker(q, msgs), index)
    IN /\ SetBrokers(r.b, rc.b)
       /\ lastOp' = Op("pop", index, <<>>, Ret(r.id, 0, {}), Ret(rc.id, 0, {}))
       /\ UNCHANGED <<nextId, purged>>

MessagesForIndex(index) ==
    /\ lastOp' = Op("peek", index, <<>>,
                    Ret(NoId, 0, MapMessagesForIndex(MapBroker(queue, allMessages), index)),
                    Ret(NoId, 0, CacheMessagesForIndex(CacheBroker(q, msgs), index)))
    /\ UNCHANGED <<queue, allMessages, q, msgs, nextId, purged>>

MsgCount(index) ==
    /\ lastOp' = Op("count", index, <<>>,
                    Ret(NoId, MapMsgCount(MapBroker(queue, allMessages), index), {}),
                    Ret(NoId, CacheMsgCount(CacheBroker(q, msgs), index), {}))
    /\ UNCHANGED <<queue, allMessages, q, msgs, nextId, purged>>

DeleteMessagesWithIds(ids) ==
    /\ SetBrokers(MapDeleteMessagesWithIds(MapBroker(queue, allMessages), ids),
                  CacheDeleteMessagesWithIds(CacheBroker(q, msgs), ids))
    /\ lastOp' = Op("delete", NoKey, ids, NoRet, NoRet)
    /\ UNCHANGED <<nextId, purged>>

PurgeIndexedMessages(index) ==
    /\ SetBrokers(MapPurgeIndexedMessages(MapBroker(queue, allMessages), index),
                  CachePurgeIndexedMessages(CacheBroker(q, msgs), index))
    /\ purged' = TRUE
    /\ lastOp' = Op("purge", index, <<>>, NoRet, NoRet)
    /\ UNCHANGED nextId

\* id lists a caller passes to DeleteMessagesWithIds
DeleteArgs == {<<i>> : i \in Ids} \cup {<<i, i + 1>> : i \in Ids}

BrokerNext ==
    \/ \E m \in BrokerMsgs : nextId <= MaxMsgs /\ AddMessage(m) /\ UNCHANGED <<pqVars, syncVars, laterVars>>
    \/ \E k \in BrokerKeys : PopMessage(k) /\ UNCHANGED <<pqVars, syncVars, laterVars>>
    \/ \E k \in BrokerKeys : MessagesForIndex(k) /\ UNCHANGED <<pqVars, syncVars, laterVars>>
    \/ \E k \in BrokerKeys : MsgCount(k) /\ UNCHANGED <<pqVars, syncVars, laterVars>>
    \/ \E ids \in DeleteArgs : DeleteMessagesWithIds(ids) /\ UNCHANGED <<pqVars, syncVars, laterVars>>
    \/ \E k \in BrokerKeys : PurgeIndexedMessages(k) /\ UNCHANGED <<pqVars, syncVars, laterVars>>

SpecBroker == BrokerInit /\ [][BrokerNext]_vars

\* the callers of the broker (network listeners, the instance's event loop)
\* keep calling it
SpecBrokerLive == BrokerInit /\ [][BrokerNext]_vars /\ WF_vars(BrokerNext)

(***************************************************************************)
(* Share thresholds                                                        *)
(***************************************************************************)
Ceil(a, b) == (a + b - 1) \div b

\* math.Ceil(float64(n) * 2 / 3): float64(n) * 2 is exact, and the quotient
\* by 3 is either an exact integer or at least 1/3 away from one, so the
\* float64 rounding never changes the ceiling for a committee size
\* variant: rounded down
ThresholdSize_floor(n) == (n * 2) \div 3

ThresholdSize_half(n) == Ceil(n * 1, 2)
ThresholdSize(n) == Ceil(n * 2, 3)

\* variant: the full quorum size is used
PartialThresholdSize_full(n) == Ceil(n * 2, 3)

\* variant: rounded down
PartialThresholdSize_floor(n) == (n * 1) \div 3

PartialThresholdSize(n) == Ceil(n * 1, 3)

\* committee of the test instance (n = 4, F = 1)
CommitteeSize == 4

(***************************************************************************)
(* Change-round partial quorum                                             *)
(***************************************************************************)
Min(S) == CHOOSE x \in S : \A y \in S : x <= y
Max(S) == CHOOSE x \in S : \A y \in S : x >= y

\* Walk over the change-round messages: per signer keep the highest round
\* above the state round (found: signer -> round).
RECURSIVE foundMsgs(_, _, _)
foundMsgs(ms, stateRound, found) ==
    IF ms = <<>> THEN found
    ELSE LET m == Head(ms)
             nf == IF m.round <= stateRound THEN found
                   ELSE IF m.signer \in DOMAIN found
                        THEN IF found[m.signer] < m.round
                             THEN Put(found, m.signer, m.round) ELSE found
                        ELSE Put(found, m.signer, m.round)
         IN foundMsgs(Tail(ms), stateRound, nf)

\* <<found partial quorum, lowest change round>>
changeRoundPartialQuorum(ms, stateRound) ==
    LET found == foundMsgs(ms, stateRound, EmptyMap) IN
    IF Cardinality(DOMAIN found) >= PartialThresholdSize(CommitteeSize)
    THEN [found |-> TRUE, lowest |-> Min({found[s] : s \in DOMAIN found})]
    ELSE [found |-> FALSE, lowest |-> stateRound]

\* the six message sequences of the partial-quorum test; instance i (from 0)
\* starts at round i
MessagesSequence ==
    << <<ChangeRoundMsg(2, 1), ChangeRoundMsg(3, 2)>>,
       <<ChangeRoundMsg(0, 1), ChangeRoundMsg(0, 2), ChangeRoundMsg(3, 1),
         ChangeRoundMsg(3, 2)>>,
       <<ChangeRoundMsg(0, 1), ChangeRoundMsg(0, 2), ChangeRoundMsg(4, 2),
         ChangeRoundMsg(5, 1), ChangeRoundMsg(6, 2), ChangeRoundMsg(7, 1),
         ChangeRoundMsg(8, 2), ChangeRoundMsg(9, 1)>>,
       <<ChangeRoundMsg(0, 1), ChangeRoundMsg(1, 2), ChangeRoundMsg(2, 1),
         ChangeRoundMsg(3, 2)>>,
       <<ChangeRoundMsg(10, 1)>>,
       <<ChangeRoundMsg(0, 1), ChangeRoundMsg(0, 2), ChangeRoundMsg(4, 2),
         ChangeRoundMsg(5, 1), ChangeRoundMsg(4, 3), ChangeRoundMsg(7, 4),
         ChangeRoundMsg(1, 2), ChangeRoundMsg(9, 1)>> >>

\* the rounds the test requires after running the pipeline
ExpectedRounds == <<2, 3, 8, 3, 4, 7>>

\* Prepare: AddMessage of every message of the sequence, ids from 1
RECURSIVE MapLoad(_, _, _)
MapLoad(b, ms, id) ==
    IF ms = <<>> THEN b ELSE MapLoad(MapAddMessage(b, Head(ms), id), Tail(ms), id + 1)

RECURSIVE CacheLoad(_, _, _)
CacheLoad(b, ms, id) ==
    IF ms = <<>> THEN b ELSE CacheLoad(CacheAddMessage(b, Head(ms), id), Tail(ms), id + 1)

MsgsOf(bucket) == [i \in DOMAIN bucket |-> bucket[i].msg]

PQInit ==
    /\ purged = FALSE
    /\ lastOp = Op("new", NoKey, <<>>, NoRet, NoRet)
    /\ startRound = 0
    /\ pqBucket = <<>>
    /\ \/ /\ round \in 0..PQMaxRound
          /\ queue = EmptyMap /\ allMessages = EmptyMap
          /\ q = EmptyMap /\ msgs = EmptyMap
          /\ nextId = 1
       \/ \E i \in DOMAIN MessagesSequence :
             LET mb == MapLoad(MapBroker(EmptyMap, EmptyMap), MessagesSequence[i], 1)
                 cb == CacheLoad(CacheBroker(EmptyMap, EmptyMap), MessagesSequence[i], 1)
             IN /\ round = i - 1
                /\ queue = mb.queue /\ allMessages = mb.allMessages
                /\ q = cb.q /\ msgs = cb.msgs
                /\ nextId = Len(MessagesSequence[i]) + 1
    /\ storedOffset = NoOffset
    /\ head = defaultSyncOffset
    /\ pc = "idle"
    /\ providedOffset = Nil
    /\ syncOffset = Nil
    /\ cn = <<>>
    /\ syncEndedEvent = NoSyncEnded
    /\ syncWgDone = FALSE
    /\ execQueue = <<>>
    /\ qErrors = {}
    /\ result = "none"
    /\ delivered = {}
    /\ handled = {}
    /\ storedAtCall = NoOffset
    /\ share = <<>>
    /\ obj = <<>>
    /\ shareOut = <<>>
    /\ sizes = <<>>
    /\ db = <<>>
    /\ lock = 0
    /\ tpc = <<>>
    /\ tloc = <<>>
    /\ stale = {}
    /\ storeOp = <<>>
    /\ instances = <<>>
    /\ net = <<>>
    /\ decidedCh = <<>>
    /\ injected = 0
    /\ decidedStore = <<>>
    /\ highestKnown = 0
    /\ startHeight = 0
    /\ peerHeight = <<>>
    /\ usablePeers = {}
    /\ dsPc = "idle"
    /\ dsPeer = 0
    /\ dsMax = 0
    /\ dsFrom = 0
    /\ lastBatch = <<>>
    /\ msgMutex = 0
    /\ lpc = <<>>
    /\ lloc = <<>>
    /\ added = <<>>
    /\ popped = <<>>
    /\ vShare = <<>>
    /\ signedMsg = <<>>
    /\ pksOut = <<>>
    /\ verifyOut = <<>>
    /\ wStart = 0
    /\ wLimit = 0
    /\ wStopAtLimit = FALSE
    /\ wMin = 0
    /\ interval = 0
    /\ wpc = "idle"
    /\ wN = 0
    /\ wSteps = 0
    /\ wCtxDone = FALSE
    /\ cfgTopics = {}
    /\ psSubscribedTopics = <<>>
    /\ psTopicsLock = <<>>
    /\ ctxDone = FALSE
    /\ listeners = <<>>
    /\ cancels = <<>>
    /\ callers = <<>>
    /\ mainWaiting = <<>>
    /\ mainRunning = 0
    /\ tgPc = <<>>
    /\ validatorShares = {}
    /\ ibftSyncEnabled = FALSE
    /\ eqStop = FALSE
    /\ eqQueue = <<>>
    /\ eqLock = 0
    /\ eqPc = <<>>
    /\ eqLoc = <<>>
    /\ eqNext = 0
    /\ eqAccepted = <<>>
    /\ eqReturned = <<>>
    /\ eqLast = <<>>
    /\ suPc = "idle"
    /\ suPk = 0
    /\ suSyncs = <<>>
    /\ suResult = "none"
    /\ networkReadersQueue = {}
    /\ decidedReadersQueue = {}
    /\ suQueued = FALSE
    /\ qrN = 0
    /\ qrSizes = <<>>
    /\ signersA = {}
    /\ signersB = {}

\* ChangeRoundPartialQuorumMsgPipeline().Run: read the change-round-all bucket,
\* bump the round on a partial quorum and purge the bucket
RunPartialQuorumPipeline ==
    LET bucket == MsgsOf(Bucket(queue, IBFTAllRoundChangeIndexKey))
        pq == changeRoundPartialQuorum(bucket, round)
    IN /\ startRound' = round
       /\ pqBucket' = bucket
       /\ lastOp' = Op("pipeline", IBFTAllRoundChangeIndexKey, <<>>, NoRet, NoRet)
       /\ IF pq.found
          THEN /\ round' = pq.lowest
               /\ SetBrokers(
                    MapPurgeIndexedMessages(MapBroker(queue, allMessages),
                                            IBFTAllRoundChangeIndexKey),
                    CachePurgeIndexedMessages(CacheBroker(q, msgs),
                                              IBFTAllRoundChangeIndexKey))
               /\ purged' = TRUE
          ELSE UNCHANGED <<round, queue, allMessages, q, msgs, purged>>
       /\ UNCHANGED nextId

PQNext ==
    \/ \E r \in 0..PQMaxRound, s \in 1..PQMaxSigner :
          /\ nextId <= PQMaxMsgs
          /\ AddMessage(ChangeRoundMsg(r, s))
          /\ UNCHANGED <<pqVars, syncVars, laterVars>>
    \/ RunPartialQuorumPipeline /\ UNCHANGED <<syncVars, laterVars>>

SpecPQ == PQInit /\ [][PQNext]_vars

(***************************************************************************)
(* Broker properties                                                       *)
(***************************************************************************)
IdsIn(bucket) == {c.id : c \in Range(bucket)}

AllKeys(qu) == DOMAIN qu \cup BrokerKeys

\* the container with the given id is in no bucket it was indexed under and
\* not in the id lookup
Gone(qu, all, c) ==
    /\ c.id \notin DOMAIN all
    /\ \A i \in DOMAIN c.indexes : c.id \notin IdsIn(Bucket(qu, c.indexes[i]))

PopPost(preQ, postQ, postAll, index, ret) ==
    LET pre == Bucket(preQ, index) IN
    IF pre = <<>> THEN ret = NoId
    ELSE /\ ret \in IdsIn(pre)
         /\ \A c \in Range(pre) : ret <= c.id
         /\ \A c \in Range(pre) : c.id = ret => Gone(postQ, postAll, c)

\* C1: PopMessage(index) returns the oldest message in the bucket of that
\* index, or nothing when the bucket is empty; the returned message's
\* container is afterwards in none of the buckets it was indexed under and
\* not in the id lookup (both broker implementations).
C1_PopOldestAndRemoved ==
    [][lastOp'.op = "pop" =>
         /\ PopPost(queue, queue', allMessages', lastOp'.key, lastOp'.ret.id)
         /\ PopPost(q, q', msgs', lastOp'.key, lastOp'.retC.id)]_vars

\* a ChangeRound container was popped through change-round-all while another
\* container stays in the broker
C1_Witness ==
    /\ lastOp.op = "pop"
    /\ lastOp.key = IBFTAllRoundChangeIndexKey
    /\ lastOp.ret.id # NoId
    /\ lastOp.retC.id # NoId
    /\ DOMAIN allMessages # {}

LookupIffBucketed(qu, all) ==
    \A id \in Ids : id \in DOMAIN all <=> \E k \in DOMAIN qu : id \in IdsIn(qu[k])

\* C2: as long as no purge has happened, a container id is in the id lookup
\* if and only if it is in at least one index bucket, also for messages for
\* which the index functions produce zero keys.
C2_LookupIffBucketed ==
    ~purged => LookupIffBucketed(queue, allMessages) /\ LookupIffBucketed(q, msgs)

PurgeFrame(preQ, postQ, preAll, postAll, index) ==
    /\ Bucket(postQ, index) = <<>>
    /\ \A k \in AllKeys(preQ) \cup AllKeys(postQ) :
          k # index => Bucket(postQ, k) = Bucket(preQ, k)
    /\ postAll = preAll

\* C3: PurgeIndexedMessages(index) empties only the bucket of that index;
\* the content and order of every other bucket and the id lookup are
\* unchanged (both broker implementations), and MsgCount and
\* MessagesForIndex report exactly the containers of the bucket asked for,
\* so a container purged from one index is still counted and peeked through
\* its other index.
C3_PurgeOnlyOneBucket ==
    [][/\ lastOp'.op = "purge" =>
            /\ PurgeFrame(queue, queue', allMessages, allMessages', lastOp'.key)
            /\ PurgeFrame(q, q', msgs, msgs', lastOp'.key)
       /\ lastOp'.op = "count" =>
            /\ lastOp'.ret.n = Len(Bucket(queue, lastOp'.key))
            /\ lastOp'.retC.n = Len(Bucket(q, lastOp'.key))
       /\ lastOp'.op = "peek" =>
            /\ lastOp'.ret.peek = IdsIn(Bucket(queue, lastOp'.key))
            /\ lastOp'.retC.peek = IdsIn(Bucket(q, lastOp'.key))]_vars

\* change-round-all was purged and a ChangeRound container is still in its
\* specific ibft bucket and in the id lookup
C3_Witness ==
    /\ lastOp.op = "purge"
    /\ lastOp.key = IBFTAllRoundChangeIndexKey
    /\ \E k \in BrokerKeys :
          /\ k.fam = "ibft"
          /\ Bucket(queue, k) # <<>>
          /\ Bucket(q, k) # <<>>
          /\ \A c \in Range(Bucket(queue, k)) : c.id \in DOMAIN allMessages

\* container ids are handed out in AddMessage order
InAddOrder(bucket) ==
    \A i, j \in DOMAIN bucket : i < j => bucket[i].id < bucket[j].id

PopFifo(preQ, postQ, index, ret) ==
    LET pre == Bucket(preQ, index) IN
    pre # <<>> => /\ ret = pre[1].id
                  /\ Bucket(postQ, index) = Tail(pre)

\* C4: FIFO within an index: every bucket holds its containers in the order
\* of their AddMessage calls, and PopMessage(index) takes the first of them
\* and leaves the others of that bucket in their order.
C4_FifoWithinIndex ==
    /\ [](\A k \in BrokerKeys : InAddOrder(Bucket(queue, k)) /\ InAddOrder(Bucket(q, k)))
    /\ [][lastOp'.op = "pop" =>
            /\ PopFifo(queue, queue', lastOp'.key, lastOp'.ret.id)
            /\ PopFifo(q, q', lastOp'.key, lastOp'.retC.id)]_vars

\* a pop returned the older of two containers of one bucket, after a purge of
\* some index; the younger one is still in the bucket
C4_Witness ==
    /\ lastOp.op = "pop"
    /\ lastOp.ret.id = 1
    /\ purged
    /\ Bucket(queue, lastOp.key) # <<>>
    /\ Bucket(q, lastOp.key) # <<>>

DeleteFrame(preQ, postQ, preAll, postAll, ids) ==
    /\ \A k \in AllKeys(preQ) \cup AllKeys(postQ) :
          Bucket(postQ, k) = SelectSeq(Bucket(preQ, k), LAMBDA c : c.id \notin Range(ids))
    /\ postAll = [id \in DOMAIN preAll \ Range(ids) |-> preAll[id]]

\* C26: DeleteMessagesWithIds(ids) removes messages cleanly: afterwards no
\* container whose id is in ids is in any index bucket or in the id lookup,
\* every other container stays in the same buckets in the same order, and
\* ids that are unknown are ignored without effect (both broker
\* implementations).
C26_DeleteByIds ==
    [][lastOp'.op = "delete" =>
         /\ DeleteFrame(queue, queue', allMessages, allMessages', lastOp'.ids)
         /\ DeleteFrame(q, q', msgs, msgs', lastOp'.ids)]_vars

\* a delete of a known and an unknown id removed the known container and
\* left the other container of the broker in its bucket
C26_Witness ==
    /\ lastOp.op = "delete"
    /\ lastOp.ids = <<2, 3>>
    /\ nextId = 3
    /\ 2 \notin DOMAIN allMessages
    /\ 2 \notin DOMAIN msgs
    /\ 1 \in DOMAIN allMessages
    /\ \E k \in BrokerKeys : IdsIn(Bucket(queue, k)) = {1} /\ IdsIn(Bucket(q, k)) = {1}

\* C28: containers left dangling by a purge are eventually swept: once every
\* bucket of the map-based broker has been drained, the id lookup holds no
\* container that was in a purged bucket. A container with index keys that
\* is in the lookup and in no bucket was purged: a purge is the only call
\* that takes a container out of a bucket and leaves it in the lookup.
C28_DanglingSwept ==
    (\A k \in AllKeys(queue) : Bucket(queue, k) = <<>>) =>
        \A id \in DOMAIN allMessages : allMessages[id].indexes = <<>>

\* both implementations hold the same containers and answered the last call
\* with the same result
BrokersAgree ==
    /\ lastOp.ret = lastOp.retC
    /\ allMessages = msgs
    /\ \A k \in AllKeys(queue) \cup AllKeys(q) : Bucket(queue, k) = Bucket(q, k)

\* C30 as stated: the two broker implementations have divergent purge
\* semantics: some sequence of AddMessage, PurgeIndexedMessages, PopMessage,
\* MsgCount and MessagesForIndex calls, with no cache entry expiring, ends
\* with the two brokers returning different results.
C30_BrokersDiverge == <>(lastOp.ret # lastOp.retC)

\* C30 amended: with no cache entry expiring the two broker implementations
\* have the same purge semantics: after every sequence of calls they hold
\* the same buckets and the same id lookup and return the same results, and
\* neither evicts purged containers from their other indexes.
C30_BrokersAgree == BrokersAgree

\* after a purge of change-round-all both brokers popped the same purged
\* container through its ibft index
C30_Witness ==
    /\ lastOp.op = "pop"
    /\ lastOp.key.fam = "ibft"
    /\ purged
    /\ lastOp.ret.id # NoId
    /\ lastOp.retC.id = lastOp.ret.id

(***************************************************************************)
(* Partial-quorum properties                                               *)
(***************************************************************************)
\* Byzantine fault bound of the committee, n = 3F + 1
F == (CommitteeSize - 1) \div 3

SignersAbove(bucket, r) == {m.signer : m \in {x \in Range(bucket) : x.round > r}}

HighestOf(bucket, s) == Max({m.round : m \in {x \in Range(bucket) : x.signer = s}})

PipelineRan == lastOp.op = "pipeline"

C6_NoPartialQuorumNoBump ==
    (PipelineRan /\ Cardinality(SignersAbove(pqBucket, startRound)) < F + 1) =>
        /\ round = startRound
        /\ MsgsOf(Bucket(queue, IBFTAllRoundChangeIndexKey)) = pqBucket

\* the fifth test instance: round 4, one change-round for round 10
C6_Witness ==
    /\ PipelineRan
    /\ pqBucket = MessagesSequence[5]
    /\ startRound = 4
    /\ round = 4

\* the step is a run of the partial-quorum pipeline
PipelineStep == lastOp'.op = "pipeline"

\* the last call was a run of the pipeline that bumped the round
Bumped == PipelineRan /\ round # startRound

\* C31: each partial-quorum bump purges the change-round-all bucket: right
\* after a bump that bucket is empty, and running the pipeline again without
\* a new ChangeRound message bumps no further, the round stays where the
\* first bump put it.
C31_BumpPurgesBucket ==
    [][PipelineStep =>
          /\ round' # round =>
                /\ Bucket(queue', IBFTAllRoundChangeIndexKey) = <<>>
                /\ Bucket(q', IBFTAllRoundChangeIndexKey) = <<>>
          /\ Bumped => round' = round]_vars

\* three ChangeRound messages were purged by a bump to round 1 although two
\* signers point to round 2, and the pipeline has run again on the empty
\* bucket
C31_Witness ==
    /\ PipelineRan
    /\ purged
    /\ pqBucket = <<>>
    /\ Cardinality(DOMAIN allMessages) = 3
    /\ Cardinality({id \in DOMAIN allMessages : allMessages[id].msg.round = 2}) = 2
    /\ startRound = 1
    /\ round = 1

(***************************************************************************)
(* Registry synchronizer                                                   *)
(***************************************************************************)
\* storage.GetSyncOffset(): (offset, found, err)
GetSyncOffset(stored, readFails) ==
    IF readFails THEN [offset |-> Nil, found |-> FALSE, err |-> TRUE]
    ELSE IF stored = NoOffset THEN [offset |-> Nil, found |-> FALSE, err |-> FALSE]
    ELSE [offset |-> stored, found |-> TRUE, err |-> FALSE]

\* variant: the provided offset wins over the stored one
determineSyncOffset_provided(fromStorage, provided) ==
    IF provided # Nil THEN provided
    ELSE IF fromStorage.found /\ fromStorage.offset # Nil THEN fromStorage.offset
    ELSE DefaultSyncOffset

determineSyncOffset(fromStorage, provided) ==
    IF fromStorage.found /\ fromStorage.offset # Nil THEN fromStorage.offset
    ELSE IF provided # Nil THEN provided
    ELSE DefaultSyncOffset

\* upgradeSyncOffset: the offset it passes to SaveSyncOffset, Nil if it saves
\* nothing
upgradeSyncOffset(offset, ev) ==
    LET nResults == Len(ev.logs) IN
    IF nResults > 0
    THEN IF ~ev.success THEN Nil
         ELSE IF ev.logs[nResults] > offset THEN ev.logs[nResults]
         ELSE Nil
    ELSE Nil

\* q.Wait() has returned: no task is waiting in the execution queue
\* variant: the queue is not waited for
QueueDrained_noWait(tasks) == TRUE

QueueDrained(tasks) == tasks = <<>>

\* syncWg.Wait() has returned: the listener goroutine is done
\* variant: the goroutine is not waited for
SyncWaited_noWait(done) == TRUE

SyncWaited(done) == done

Event(b) == [ended |-> FALSE, block |-> b, data |-> NoSyncEnded]

SyncEnded(ev) == [ended |-> TRUE, block |-> 0, data |-> ev]

\* what one client.Sync(offset) call fetches: logs in ascending block order
\* between the offset and the current block, and which of them parse
Ascending(logs) == \A i, j \in DOMAIN logs : i < j => logs[i] < logs[j]

ClientLogs(offset, hd) ==
    {logs \in UNION {[1..n -> {b \in Blocks : offset <= b /\ b <= hd}] : n \in 0..MaxLogs} :
        Ascending(logs)}

EventsOf(logs, parsed) ==
    LET idx == SelectSeq([i \in DOMAIN logs |-> i], LAMBDA i : i \in parsed) IN
    [i \in DOMAIN idx |-> Event(logs[idx[i]])]

SyncInit ==
    /\ queue = EmptyMap
    /\ allMessages = EmptyMap
    /\ q = EmptyMap
    /\ msgs = EmptyMap
    /\ nextId = 1
    /\ purged = FALSE
    /\ lastOp = Op("new", NoKey, <<>>, NoRet, NoRet)
    /\ round = 0
    /\ startRound = 0
    /\ pqBucket = <<>>
    /\ storedOffset = NoOffset
    /\ head \in Blocks
    /\ pc = "idle"
    /\ providedOffset = Nil
    /\ syncOffset = Nil
    /\ cn = <<>>
    /\ syncEndedEvent = NoSyncEnded
    /\ syncWgDone = FALSE
    /\ execQueue = <<>>
    /\ qErrors = {}
    /\ result = "none"
    /\ delivered = {}
    /\ handled = {}
    /\ storedAtCall = NoOffset
    /\ share = <<>>
    /\ obj = <<>>
    /\ shareOut = <<>>
    /\ sizes = <<>>
    /\ db = <<>>
    /\ lock = 0
    /\ tpc = <<>>
    /\ tloc = <<>>
    /\ stale = {}
    /\ storeOp = <<>>
    /\ instances = <<>>
    /\ net = <<>>
    /\ decidedCh = <<>>
    /\ injected = 0
    /\ decidedStore = <<>>
    /\ highestKnown = 0
    /\ startHeight = 0
    /\ peerHeight = <<>>
    /\ usablePeers = {}
    /\ dsPc = "idle"
    /\ dsPeer = 0
    /\ dsMax = 0
    /\ dsFrom = 0
    /\ lastBatch = <<>>
    /\ msgMutex = 0
    /\ lpc = <<>>
    /\ lloc = <<>>
    /\ added = <<>>
    /\ popped = <<>>
    /\ vShare = <<>>
    /\ signedMsg = <<>>
    /\ pksOut = <<>>
    /\ verifyOut = <<>>
    /\ wStart = 0
    /\ wLimit = 0
    /\ wStopAtLimit = FALSE
    /\ wMin = 0
    /\ interval = 0
    /\ wpc = "idle"
    /\ wN = 0
    /\ wSteps = 0
    /\ wCtxDone = FALSE
    /\ cfgTopics = {}
    /\ psSubscribedTopics = <<>>
    /\ psTopicsLock = <<>>
    /\ ctxDone = FALSE
    /\ listeners = <<>>
    /\ cancels = <<>>
    /\ callers = <<>>
    /\ mainWaiting = <<>>
    /\ mainRunning = 0
    /\ tgPc = <<>>
    /\ validatorShares = {}
    /\ ibftSyncEnabled = FALSE
    /\ eqStop = FALSE
    /\ eqQueue = <<>>
    /\ eqLock = 0
    /\ eqPc = <<>>
    /\ eqLoc = <<>>
    /\ eqNext = 0
    /\ eqAccepted = <<>>
    /\ eqReturned = <<>>
    /\ eqLast = <<>>
    /\ suPc = "idle"
    /\ suPk = 0
    /\ suSyncs = <<>>
    /\ suResult = "none"
    /\ networkReadersQueue = {}
    /\ decidedReadersQueue = {}
    /\ suQueued = FALSE
    /\ qrN = 0
    /\ qrSizes = <<>>
    /\ signersA = {}
    /\ signersB = {}

\* exporter.StartEth1 (also after a restart of the node): calls
\* SyncEth1Events with the configured offset
StartEth1(provided) ==
    /\ pc \in {"idle", "done"}
    /\ pc' = "enter"
    /\ providedOffset' = provided
    /\ result' = "none"
    /\ storedAtCall' = storedOffset
    /\ UNCHANGED <<storedOffset, head, syncOffset, cn, syncEndedEvent, syncWgDone,
                   execQueue, qErrors, delivered, handled>>

\* SyncEth1Events, lines 51-81: register, new queue, start the listener
\* goroutine, determine the offset
Enter(registerFails, readFails) ==
    /\ pc = "enter"
    /\ IF registerFails
       THEN /\ pc' = "done"
            /\ result' = "registerError"
            /\ UNCHANGED <<syncOffset, cn, syncEndedEvent, syncWgDone, execQueue, qErrors>>
       ELSE /\ pc' = "sync"
            /\ syncOffset' = determineSyncOffset(GetSyncOffset(storedOffset, readFails),
                                                 providedOffset)
            /\ cn' = <<>>
            /\ syncEndedEvent' = NoSyncEnded
            /\ syncWgDone' = FALSE
            /\ execQueue' = <<>>
            /\ qErrors' = {}
            /\ UNCHANGED result
    /\ UNCHANGED <<storedOffset, head, providedOffset, delivered, handled, storedAtCall>>

\* client.Sync(syncOffset), line 82: an error, or the events of the fetched
\* logs followed by SyncEnded on the events subject
ClientSyncFails ==
    /\ pc = "sync"
    /\ pc' = "done"
    /\ result' = "syncError"
    /\ UNCHANGED <<storedOffset, head, providedOffset, syncOffset, cn, syncEndedEvent,
                   syncWgDone, execQueue, qErrors, delivered, handled, storedAtCall>>

ClientSync(logs, parsed) ==
    /\ pc = "sync"
    /\ pc' = "wait"
    /\ cn' = EventsOf(logs, parsed)
               \o <<SyncEnded(SyncEndedEvent(logs, parsed = DOMAIN logs))>>
    /\ delivered' = delivered \cup {logs[i] : i \in parsed}
    /\ UNCHANGED <<storedOffset, head, providedOffset, syncOffset, syncEndedEvent,
                   syncWgDone, execQueue, qErrors, result, handled, storedAtCall>>

\* the listener goroutine, lines 64-80: one iteration of the range loop
Listen ==
    /\ cn # <<>>
    /\ ~syncWgDone
    /\ cn' = Tail(cn)
    /\ IF Head(cn).ended
       THEN /\ syncEndedEvent' = Head(cn).data
            /\ syncWgDone' = TRUE
            /\ UNCHANGED execQueue
       ELSE /\ execQueue' = Append(execQueue, Head(cn).block)
            /\ UNCHANGED <<syncEndedEvent, syncWgDone>>
    /\ UNCHANGED <<storedOffset, head, pc, providedOffset, syncOffset, qErrors, result,
                   delivered, handled, storedAtCall>>

\* the execution queue worker runs the next task: handler(event)
RunTask(handlerFails) ==
    /\ execQueue # <<>>
    /\ execQueue' = Tail(execQueue)
    /\ handled' = handled \cup {Head(execQueue)}
    /\ qErrors' = IF handlerFails THEN qErrors \cup {Head(execQueue)} ELSE qErrors
    /\ UNCHANGED <<storedOffset, head, pc, providedOffset, syncOffset, cn, syncEndedEvent,
                   syncWgDone, result, delivered, storedAtCall>>

\* lines 87-94: syncWg.Wait(), q.Wait(), then the check of q.Errors()
WaitAndCheckErrors ==
    /\ pc = "wait"
    /\ SyncWaited(syncWgDone)
    /\ QueueDrained(execQueue)
    /\ IF qErrors # {}
       THEN /\ pc' = "done"
            /\ result' = "handlerError"
       ELSE /\ pc' = "currentBlock"
            /\ UNCHANGED result
    /\ UNCHANGED <<storedOffset, head, providedOffset, syncOffset, cn, syncEndedEvent,
                   syncWgDone, execQueue, qErrors, delivered, handled, storedAtCall>>

\* variant: a failing client.CurrentBlock() is returned as an error
CurrentBlock_returnsError(currentBlockFails, saveFails) ==
    /\ pc = "currentBlock"
    /\ pc' = "done"
    /\ result' = IF currentBlockFails THEN "currentBlockError" ELSE "ok"
    /\ UNCHANGED <<storedOffset, head, providedOffset, syncOffset, cn, syncEndedEvent,
                   syncWgDone, execQueue, qErrors, delivered, handled, storedAtCall>>

\* lines 97-104: client.CurrentBlock(), then either the re-invocation with
\* the local offset or upgradeSyncOffset with SaveSyncOffset
CurrentBlock(currentBlockFails, saveFails) ==
    /\ pc = "currentBlock"
    /\ IF ~currentBlockFails /\ syncOffset < head
       THEN /\ pc' = "enter"
            /\ providedOffset' = syncOffset
            /\ UNCHANGED <<storedOffset, syncOffset, result>>
       ELSE LET save == upgradeSyncOffset(syncOffset, syncEndedEvent) IN
            /\ pc' = "done"
            /\ UNCHANGED providedOffset
            /\ IF save = Nil
               THEN /\ result' = "ok"
                    /\ UNCHANGED <<storedOffset, syncOffset>>
               ELSE /\ syncOffset' = save
                    /\ IF saveFails
                       THEN /\ result' = "saveError"
                            /\ UNCHANGED storedOffset
                       ELSE /\ result' = "ok"
                            /\ storedOffset' = save
    /\ UNCHANGED <<head, cn, syncEndedEvent, syncWgDone, execQueue, qErrors,
                   delivered, handled, storedAtCall>>

\* the chain grows
NewBlock ==
    /\ head + 1 \in Blocks
    /\ head' = head + 1
    /\ UNCHANGED <<storedOffset, pc, providedOffset, syncOffset, cn, syncEndedEvent,
                   syncWgDone, execQueue, qErrors, result, delivered, handled,
                   storedAtCall>>

SyncNext ==
    \/ \E p \in Blocks \cup {Nil} : StartEth1(p) /\ UNCHANGED <<brokerVars, pqVars, laterVars>>
    \/ \E rf, sf \in BOOLEAN : Enter(rf, sf) /\ UNCHANGED <<brokerVars, pqVars, laterVars>>
    \/ ClientSyncFails /\ UNCHANGED <<brokerVars, pqVars, laterVars>>
    \/ \E logs \in ClientLogs(syncOffset, head) : \E parsed \in SUBSET DOMAIN logs :
          ClientSync(logs, parsed) /\ UNCHANGED <<brokerVars, pqVars, laterVars>>
    \/ Listen /\ UNCHANGED <<brokerVars, pqVars, laterVars>>
    \/ \E hf \in BOOLEAN : RunTask(hf) /\ UNCHANGED <<brokerVars, pqVars, laterVars>>
    \/ WaitAndCheckErrors /\ UNCHANGED <<brokerVars, pqVars, laterVars>>
    \/ \E cf, sf \in BOOLEAN : CurrentBlock(cf, sf) /\ UNCHANGED <<brokerVars, pqVars, laterVars>>
    \/ NewBlock /\ UNCHANGED <<brokerVars, pqVars, laterVars>>

SpecSync == SyncInit /\ [][SyncNext]_vars

(***************************************************************************)
(* Registry synchronizer properties                                        *)
(***************************************************************************)
HighestBlock(logs) == Max(Range(logs))

\* a replay pass ends: SyncEth1Events leaves the check of the current block
PassEnds == pc = "currentBlock" /\ pc' # "currentBlock"

\* C7: at the end of a replay pass the highest block number of
\* SyncEnded.logs is persisted as the new sync offset whenever
\* SyncEnded.success is true and that number exceeds the persisted offset
\* (read here in the claim's favour: it also exceeds the offset the pass
\* started from, and the storage accepts the write); the persisted offset is
\* unchanged when SyncEnded.success is false or the logs are empty.
C7_PersistAtPassEnd ==
    [][PassEnds =>
         /\ ( /\ syncEndedEvent.logs # <<>>
              /\ syncEndedEvent.success
              /\ HighestBlock(syncEndedEvent.logs) > storedOffset
              /\ HighestBlock(syncEndedEvent.logs) > syncOffset
              /\ result' # "saveError" )
            => storedOffset' = HighestBlock(syncEndedEvent.logs)
         /\ (syncEndedEvent.logs = <<>> \/ ~syncEndedEvent.success)
            => storedOffset' = storedOffset]_vars

\* C8: the persisted sync offset never decreases: every value written by
\* SaveSyncOffset is greater than or equal to the value stored before it.
C8_OffsetNeverDecreases ==
    [][storedOffset # NoOffset => storedOffset' >= storedOffset]_vars

\* C9: when the handler returned an error for at least one replayed event,
\* the handler has still been run for all other published events, the call
\* returns the one aggregated error, and the persisted offset is the one
\* from before the call.
C9_HandlerErrorAfterDrain ==
    result = "handlerError" =>
        /\ qErrors # {}
        /\ execQueue = <<>>
        /\ cn = <<>>
        /\ delivered \subseteq handled
        /\ storedOffset = storedAtCall

\* the handler failed for the first event of a pass and ran for a later one
C9_Witness ==
    /\ result = "handlerError"
    /\ syncEndedEvent.success
    /\ \E i, j \in DOMAIN syncEndedEvent.logs :
          /\ i < j
          /\ syncEndedEvent.logs[i] \in qErrors
          /\ syncEndedEvent.logs[j] \in handled \ qErrors

\* C10: at-least-once: whenever a sync offset B is persisted, the handler
\* has been invoked for every event the client published with block number
\* at most B.
C10_AtLeastOnce ==
    [][storedOffset' # storedOffset =>
         \A b \in delivered' : b <= storedOffset' => b \in handled']_vars

\* an offset was persisted by this call and events at or below it were
\* published
C10_Witness ==
    /\ result = "ok"
    /\ storedOffset # NoOffset
    /\ storedOffset # storedAtCall
    /\ \E b \in delivered : b <= storedOffset

\* the re-invocation of lines 100-101: SyncEth1Events calls itself
ReEntry == pc = "currentBlock" /\ pc' = "enter"

\* C11: registry re-entry uses the updated offset: when a replay pass that
\* started at offset O ends successfully with last event block B > O and
\* the client's current head H is greater than B, the synchronizer first
\* persists B, and the re-invocation asks the client to replay from B (the
\* offset it determines from the storage and its argument is B), not again
\* from O.
C11_ReEntryUsesUpdatedOffset ==
    [][( /\ ReEntry
         /\ syncEndedEvent.success
         /\ syncEndedEvent.logs # <<>>
         /\ HighestBlock(syncEndedEvent.logs) > syncOffset
         /\ head > HighestBlock(syncEndedEvent.logs) )
       => /\ storedOffset' = HighestBlock(syncEndedEvent.logs)
          /\ determineSyncOffset(GetSyncOffset(storedOffset', FALSE), providedOffset')
                = HighestBlock(syncEndedEvent.logs)]_vars

(***************************************************************************)
(* Validator share: Serialize, Deserialize, thresholds                     *)
(***************************************************************************)
MaxCommittee == 4   \* largest committee explored

\* a nil *bls.SecretKey; the keys themselves are numbers, 0 being the zero
\* value bls.SecretKey{}
NilKey == -1
SecretKeys == {0, 1, 18}
PublicKeys == {3, 17}

\* byte slices are modelled by their content: <<>> is a nil or empty slice
\* bls.SecretKey.Serialize / Deserialize: fixed-length big-endian bytes
SecretKeySerialize(k) == <<k \div 16, k % 16>>

SecretKeyDeserialize(b) ==
    IF Len(b) = 2 THEN [err |-> FALSE, key |-> b[1] * 16 + b[2]]
    ELSE [err |-> TRUE, key |-> 0]

\* bls.PublicKey.Serialize / Deserialize: a flag byte and the coordinate
PublicKeySerialize(k) == <<1, k \div 16, k % 16>>

PublicKeyDeserialize(b) ==
    IF Len(b) = 3 /\ b[1] = 1 THEN [err |-> FALSE, key |-> b[2] * 16 + b[3]]
    ELSE [err |-> TRUE, key |-> 0]

\* proto.Node
Node(id, pk, sk) == [IbftId |-> id, Pk |-> pk, Sk |-> sk]

\* *beacon.ValidatorMetadata: nil, or a pointer to the struct
Metadata(balance, status, index, epoch) ==
    [present |-> TRUE, Balance |-> balance, Status |-> status, Index |-> index,
     ActivationEpoch |-> epoch]
NilMetadata ==
    [present |-> FALSE, Balance |-> 0, Status |-> 0, Index |-> 0, ActivationEpoch |-> 0]
Metadatas == {NilMetadata, Metadata(0, 0, 0, 0), Metadata(32, 2, 7, 0)}

Share(nodeID, pk, sk, committee, metadata) ==
    [NodeID |-> nodeID, PublicKey |-> pk, ShareKey |-> sk,
     Committee |-> committee, Metadata |-> metadata]

\* the committee of n operators; operator 1 may carry its secret bytes
Committee(n, withSk) ==
    [i \in 1..n |-> Node(i, PublicKeySerialize(16 + i),
                         IF withSk /\ i = 1 THEN SecretKeySerialize(1) ELSE <<>>)]

\* well-formed shares: 0 < NodeID <= |Committee|, every entry has a pk; the
\* share secret is a key, the zero key, or nil (a node without a share key)
Shares ==
    {Share(id, pk, sk, Committee(n, w), md) :
        id \in 1..MaxCommittee, pk \in PublicKeys, sk \in SecretKeys \cup {NilKey},
        n \in 1..MaxCommittee, w \in BOOLEAN, md \in Metadatas}

WellFormed(s) == s.NodeID >= 1 /\ s.NodeID <= Cardinality(DOMAIN s.Committee)

\* encoding/gob: a struct is sent as those of its fields that do not hold
\* the zero value of their type; the decoder leaves absent fields zero
GobEncodeStruct(v, zero) == [f \in {g \in DOMAIN v : v[g] # zero[g]} |-> v[f]]

GobDecodeStruct(enc, zero) ==
    [f \in DOMAIN zero |-> IF f \in DOMAIN enc THEN enc[f] ELSE zero[f]]

ZeroNode == Node(0, <<>>, <<>>)
ZeroMetadataStruct == [Balance |-> 0, Status |-> 0, Index |-> 0, ActivationEpoch |-> 0]

\* gob of a serializedShare: NodeID and ShareKey are left out when zero or
\* empty, the (non-nil) Committee map is always sent, its *proto.Node
\* elements as structs; a nil Metadata pointer is left out, a non-nil one is
\* sent as a struct, also when all its fields are zero
GobEncode(value) ==
    LET sent == (IF value.NodeID # 0 THEN {"NodeID"} ELSE {})
                \cup (IF value.ShareKey # <<>> THEN {"ShareKey"} ELSE {})
                \cup {"Committee"}
                \cup (IF value.Metadata.present THEN {"Metadata"} ELSE {})
    IN [f \in sent |->
          CASE f = "NodeID" -> value.NodeID
            [] f = "ShareKey" -> value.ShareKey
            [] f = "Committee" ->
                 [k \in DOMAIN value.Committee |->
                    GobEncodeStruct(value.Committee[k], ZeroNode)]
            [] f = "Metadata" ->
                 GobEncodeStruct([Balance |-> value.Metadata.Balance,
                                  Status |-> value.Metadata.Status,
                                  Index |-> value.Metadata.Index,
                                  ActivationEpoch |-> value.Metadata.ActivationEpoch],
                                 ZeroMetadataStruct)]

GobDecode(enc) ==
    [NodeID |-> IF "NodeID" \in DOMAIN enc THEN enc["NodeID"] ELSE 0,
     ShareKey |-> IF "ShareKey" \in DOMAIN enc THEN enc["ShareKey"] ELSE <<>>,
     Committee |-> IF "Committee" \in DOMAIN enc
                   THEN [k \in DOMAIN enc["Committee"] |->
                           GobDecodeStruct(enc["Committee"][k], ZeroNode)]
                   ELSE EmptyMap,
     Metadata |-> IF "Metadata" \in DOMAIN enc
                  THEN LET m == GobDecodeStruct(enc["Metadata"], ZeroMetadataStruct)
                       IN Metadata(m.Balance, m.Status, m.Index, m.ActivationEpoch)
                  ELSE NilMetadata]

\* the outcome of a call: a panic, an error, or a value
Panicked == [called |-> TRUE, panic |-> TRUE, err |-> FALSE, val |-> <<>>]
Failed == [called |-> TRUE, panic |-> FALSE, err |-> TRUE, val |-> <<>>]
Returned(v) == [called |-> TRUE, panic |-> FALSE, err |-> FALSE, val |-> v]
NotCalled == [called |-> FALSE, panic |-> FALSE, err |-> FALSE, val |-> <<>>]

\* variant: the metadata is not part of the stored value
Serialize_noMetadata(s) ==
    IF s.ShareKey = NilKey THEN Panicked
    ELSE Returned(GobEncode([NodeID |-> s.NodeID,
                             ShareKey |-> SecretKeySerialize(s.ShareKey),
                             Committee |-> [k \in DOMAIN s.Committee |->
                                              Node(s.Committee[k].IbftId,
                                                   s.Committee[k].Pk,
                                                   s.Committee[k].Sk)],
                             Metadata |-> NilMetadata]))

\* Share.Serialize: s.ShareKey.Serialize() is called on the pointer as it
\* is, and dereferences it
Serialize(s) ==
    IF s.ShareKey = NilKey THEN Panicked
    ELSE Returned(GobEncode([NodeID |-> s.NodeID,
                             ShareKey |-> SecretKeySerialize(s.ShareKey),
                             Committee |-> [k \in DOMAIN s.Committee |->
                                              Node(s.Committee[k].IbftId,
                                                   s.Committee[k].Pk,
                                                   s.Committee[k].Sk)],
                             Metadata |-> s.Metadata]))

\* basedb.Obj
Obj(key, value) == [Key |-> key, Value |-> value]

\* Share.Deserialize: the secret starts as the zero key and is read only
\* from non-empty bytes; the public key is read from the record's key
Deserialize(o) ==
    LET value == GobDecode(o.Value)
        sec == IF Len(value.ShareKey) > 0 THEN SecretKeyDeserialize(value.ShareKey)
               ELSE [err |-> FALSE, key |-> 0]
        pub == PublicKeyDeserialize(o.Key)
    IN IF sec.err \/ pub.err THEN Failed
       ELSE Returned(Share(value.NodeID, pub.key, sec.key, value.Committee,
                           value.Metadata))

NoSizes == [n |-> 0, threshold |-> 0, partial |-> 0]

ShareInit ==
    /\ queue = EmptyMap
    /\ allMessages = EmptyMap
    /\ q = EmptyMap
    /\ msgs = EmptyMap
    /\ nextId = 1
    /\ purged = FALSE
    /\ lastOp = Op("new", NoKey, <<>>, NoRet, NoRet)
    /\ round = 0
    /\ startRound = 0
    /\ pqBucket = <<>>
    /\ storedOffset = NoOffset
    /\ head = defaultSyncOffset
    /\ pc = "idle"
    /\ providedOffset = Nil
    /\ syncOffset = Nil
    /\ cn = <<>>
    /\ syncEndedEvent = NoSyncEnded
    /\ syncWgDone = FALSE
    /\ execQueue = <<>>
    /\ qErrors = {}
    /\ result = "none"
    /\ delivered = {}
    /\ handled = {}
    /\ storedAtCall = NoOffset
    /\ share \in {s \in Shares : WellFormed(s)}
    /\ obj = NotCalled
    /\ shareOut = NotCalled
    /\ sizes = NoSizes
    /\ db = <<>>
    /\ lock = 0
    /\ tpc = <<>>
    /\ tloc = <<>>
    /\ stale = {}
    /\ storeOp = <<>>
    /\ instances = <<>>
    /\ net = <<>>
    /\ decidedCh = <<>>
    /\ injected = 0
    /\ decidedStore = <<>>
    /\ highestKnown = 0
    /\ startHeight = 0
    /\ peerHeight = <<>>
    /\ usablePeers = {}
    /\ dsPc = "idle"
    /\ dsPeer = 0
    /\ dsMax = 0
    /\ dsFrom = 0
    /\ lastBatch = <<>>
    /\ msgMutex = 0
    /\ lpc = <<>>
    /\ lloc = <<>>
    /\ added = <<>>
    /\ popped = <<>>
    /\ vShare = <<>>
    /\ signedMsg = <<>>
    /\ pksOut = <<>>
    /\ verifyOut = <<>>
    /\ wStart = 0
    /\ wLimit = 0
    /\ wStopAtLimit = FALSE
    /\ wMin = 0
    /\ interval = 0
    /\ wpc = "idle"
    /\ wN = 0
    /\ wSteps = 0
    /\ wCtxDone = FALSE
    /\ cfgTopics = {}
    /\ psSubscribedTopics = <<>>
    /\ psTopicsLock = <<>>
    /\ ctxDone = FALSE
    /\ listeners = <<>>
    /\ cancels = <<>>
    /\ callers = <<>>
    /\ mainWaiting = <<>>
    /\ mainRunning = 0
    /\ tgPc = <<>>
    /\ validatorShares = {}
    /\ ibftSyncEnabled = FALSE
    /\ eqStop = FALSE
    /\ eqQueue = <<>>
    /\ eqLock = 0
    /\ eqPc = <<>>
    /\ eqLoc = <<>>
    /\ eqNext = 0
    /\ eqAccepted = <<>>
    /\ eqReturned = <<>>
    /\ eqLast = <<>>
    /\ suPc = "idle"
    /\ suPk = 0
    /\ suSyncs = <<>>
    /\ suResult = "none"
    /\ networkReadersQueue = {}
    /\ decidedReadersQueue = {}
    /\ suQueued = FALSE
    /\ qrN = 0
    /\ qrSizes = <<>>
    /\ signersA = {}
    /\ signersB = {}

\* the share is written as the record (PublicKey.Serialize(), Serialize())
SerializeShare ==
    /\ ~obj.called
    /\ obj' = LET value == Serialize(share) IN
              IF value.panic \/ value.err THEN value
              ELSE Returned(Obj(PublicKeySerialize(share.PublicKey), value.val))
    /\ UNCHANGED <<share, shareOut, sizes>>

\* the record is read back
DeserializeShare ==
    /\ obj.called /\ ~obj.panic /\ ~obj.err
    /\ ~shareOut.called
    /\ shareOut' = Deserialize(obj.val)
    /\ UNCHANGED <<share, obj, sizes>>

\* ThresholdSize() and PartialThresholdSize() of the share
Thresholds ==
    /\ sizes.n = 0
    /\ sizes' = LET n == Cardinality(DOMAIN share.Committee) IN
                [n |-> n, threshold |-> ThresholdSize(n),
                 partial |-> PartialThresholdSize(n)]
    /\ UNCHANGED <<share, obj, shareOut>>

ShareNext ==
    \/ SerializeShare /\ UNCHANGED <<brokerVars, pqVars, syncVars, storeVars, ibftVars, dsyncVars, moreVars>>
    \/ DeserializeShare /\ UNCHANGED <<brokerVars, pqVars, syncVars, storeVars, ibftVars, dsyncVars, moreVars>>
    \/ Thresholds /\ UNCHANGED <<brokerVars, pqVars, syncVars, storeVars, ibftVars, dsyncVars, moreVars>>

SpecShare == ShareInit /\ [][ShareNext]_vars

(***************************************************************************)
(* Validator share properties                                              *)
(***************************************************************************)
\* C12: for every committee size n >= 1, ThresholdSize is the least integer
\* not below 2n/3 and PartialThresholdSize the least integer not below n/3;
\* when n = 3F+1 these equal 2F+1 and F+1 (n = 4 gives 3 and 2).
C12_Thresholds ==
    sizes.n # 0 =>
        LET n == sizes.n
            fb == (n - 1) \div 3
        IN /\ n >= 1
           /\ 3 * sizes.threshold >= 2 * n /\ 3 * (sizes.threshold - 1) < 2 * n
           /\ 3 * sizes.partial >= n /\ 3 * (sizes.partial - 1) < n
           /\ (n = 3 * fb + 1) => sizes.threshold = 2 * fb + 1 /\ sizes.partial = fb + 1
           /\ (n = 4) => sizes.threshold = 3 /\ sizes.partial = 2

\* the thresholds of a committee of four were computed
C12_Witness == sizes.n = 4 /\ sizes.threshold = 3 /\ sizes.partial = 2

\* C13: share serialization round-trips: for any well-formed share
\* (metadata absent or present, share secret present or empty),
\* deserializing the stored (validator-pk key, Serialize() value) record
\* yields a share with the same node id, validator public key, share
\* secret, committee and metadata.
C13_SerializeRoundTrip ==
    /\ obj.called => ~obj.panic /\ ~obj.err
    /\ shareOut.called =>
          /\ ~shareOut.panic /\ ~shareOut.err
          /\ shareOut.val = share

(***************************************************************************)
(* Share store (Collection)                                                *)
(***************************************************************************)
\* the goroutines calling into the collection
Threads == {1, 2}

NoShare == Share(0, 0, 0, EmptyMap, NilMetadata)

\* the shares SaveValidatorShare is called with, and the metadata values
\* UpdateValidatorMetadata is called with
StoreShares ==
    {Share(1, pk, 1, Committee(CommitteeSize, FALSE), md) :
        pk \in PublicKeys, md \in {NilMetadata, Metadata(32, 2, 7, 0)}}
NewMetadatas == {NilMetadata, Metadata(31, 2, 7, 0)}

\* encoding/hex: two digits per byte; a digit above 15 stands for a
\* character that is no hex digit
HexEncodeToString(b) ==
    [i \in 1..(2 * Len(b)) |->
        IF i % 2 = 1 THEN b[(i + 1) \div 2] \div 16 ELSE b[i \div 2] % 16]

HexDecodeString(h) ==
    IF Len(h) % 2 # 0 \/ \E i \in DOMAIN h : h[i] > 15
    THEN [err |-> TRUE, bytes |-> <<>>]
    ELSE [err |-> FALSE,
          bytes |-> [i \in 1..(Len(h) \div 2) |-> h[2 * i - 1] * 16 + h[2 * i]]]

\* pk strings passed to UpdateValidatorMetadata: the stored keys in hex, and
\* a string of odd length
PkStrings == {HexEncodeToString(PublicKeySerialize(k)) : k \in PublicKeys} \cup {<<1>>}

\* db.Get(prefix, key): (obj, found, err)
DbGet(dbv, key, fails) ==
    IF fails THEN [obj |-> Obj(key, <<>>), found |-> TRUE, err |-> TRUE]
    ELSE IF key \in DOMAIN dbv
         THEN [obj |-> Obj(key, dbv[key]), found |-> TRUE, err |-> FALSE]
         ELSE [obj |-> Obj(key, <<>>), found |-> FALSE, err |-> FALSE]

\* variant: a key that is not found is reported as an error
getUnsafe_notFoundError(dbv, key, fails) ==
    LET g == DbGet(dbv, key, fails) IN
    IF ~g.found \/ g.err THEN [share |-> NoShare, found |-> g.found, err |-> TRUE]
    ELSE LET d == Deserialize(g.obj) IN
         [share |-> IF d.err THEN NoShare ELSE d.val, found |-> g.found, err |-> d.err]

getUnsafe(dbv, key, fails) ==
    LET g == DbGet(dbv, key, fails) IN
    IF ~g.found THEN [share |-> NoShare, found |-> FALSE, err |-> FALSE]
    ELSE IF g.err THEN [share |-> NoShare, found |-> g.found, err |-> TRUE]
    ELSE LET d == Deserialize(g.obj) IN
         [share |-> IF d.err THEN NoShare ELSE d.val, found |-> g.found, err |-> d.err]

\* saveUnsafe: the database after it, and whether it returned an error
saveUnsafe(dbv, s, fails) ==
    LET value == Serialize(s) IN
    IF value.panic \/ value.err \/ fails THEN [db |-> dbv, err |-> TRUE]
    ELSE [db |-> Put(dbv, PublicKeySerialize(s.PublicKey), value.val), err |-> FALSE]

NoLocal == [key |-> <<>>, share |-> NoShare, before |-> NoShare]

StoreOp(op, t, key, m, before, found, err) ==
    [op |-> op, t |-> t, key |-> key, m |-> m, before |-> before,
     found |-> found, err |-> err]

StoreInit ==
    /\ queue = EmptyMap
    /\ allMessages = EmptyMap
    /\ q = EmptyMap
    /\ msgs = EmptyMap
    /\ nextId = 1
    /\ purged = FALSE
    /\ lastOp = Op("new", NoKey, <<>>, NoRet, NoRet)
    /\ round = 0
    /\ startRound = 0
    /\ pqBucket = <<>>
    /\ storedOffset = NoOffset
    /\ head = defaultSyncOffset
    /\ pc = "idle"
    /\ providedOffset = Nil
    /\ syncOffset = Nil
    /\ cn = <<>>
    /\ syncEndedEvent = NoSyncEnded
    /\ syncWgDone = FALSE
    /\ execQueue = <<>>
    /\ qErrors = {}
    /\ result = "none"
    /\ delivered = {}
    /\ handled = {}
    /\ storedAtCall = NoOffset
    /\ share = <<>>
    /\ obj = <<>>
    /\ shareOut = <<>>
    /\ sizes = <<>>
    /\ db = EmptyMap
    /\ lock = 0
    /\ tpc = [t \in Threads |-> "idle"]
    /\ tloc = [t \in Threads |-> NoLocal]
    /\ stale = {}
    /\ storeOp = StoreOp("new", 0, <<>>, NilMetadata, NoShare, FALSE, FALSE)
    /\ instances = <<>>
    /\ net = <<>>
    /\ decidedCh = <<>>
    /\ injected = 0
    /\ decidedStore = <<>>
    /\ highestKnown = 0
    /\ startHeight = 0
    /\ peerHeight = <<>>
    /\ usablePeers = {}
    /\ dsPc = "idle"
    /\ dsPeer = 0
    /\ dsMax = 0
    /\ dsFrom = 0
    /\ lastBatch = <<>>
    /\ msgMutex = 0
    /\ lpc = <<>>
    /\ lloc = <<>>
    /\ added = <<>>
    /\ popped = <<>>
    /\ vShare = <<>>
    /\ signedMsg = <<>>
    /\ pksOut = <<>>
    /\ verifyOut = <<>>
    /\ wStart = 0
    /\ wLimit = 0
    /\ wStopAtLimit = FALSE
    /\ wMin = 0
    /\ interval = 0
    /\ wpc = "idle"
    /\ wN = 0
    /\ wSteps = 0
    /\ wCtxDone = FALSE
    /\ cfgTopics = {}
    /\ psSubscribedTopics = <<>>
    /\ psTopicsLock = <<>>
    /\ ctxDone = FALSE
    /\ listeners = <<>>
    /\ cancels = <<>>
    /\ callers = <<>>
    /\ mainWaiting = <<>>
    /\ mainRunning = 0
    /\ tgPc = <<>>
    /\ validatorShares = {}
    /\ ibftSyncEnabled = FALSE
    /\ eqStop = FALSE
    /\ eqQueue = <<>>
    /\ eqLock = 0
    /\ eqPc = <<>>
    /\ eqLoc = <<>>
    /\ eqNext = 0
    /\ eqAccepted = <<>>
    /\ eqReturned = <<>>
    /\ eqLast = <<>>
    /\ suPc = "idle"
    /\ suPk = 0
    /\ suSyncs = <<>>
    /\ suResult = "none"
    /\ networkReadersQueue = {}
    /\ decidedReadersQueue = {}
    /\ suQueued = FALSE
    /\ qrN = 0
    /\ qrSizes = <<>>
    /\ signersA = {}
    /\ signersB = {}

\* SaveValidatorShare: Lock, saveUnsafe, Unlock
SaveValidatorShare(t, s, fails) ==
    /\ tpc[t] = "idle"
    /\ lock = 0
    /\ LET r == saveUnsafe(db, s, fails) IN
       /\ db' = r.db
       /\ storeOp' = StoreOp("save", t, PublicKeySerialize(s.PublicKey), s.Metadata,
                             NoShare, FALSE, r.err)
    /\ UNCHANGED <<lock, tpc, tloc, stale>>

\* GetValidatorShare: RLock (waits while a writer holds the lock), getUnsafe,
\* RUnlock
GetValidatorShare(t, key, fails) ==
    /\ tpc[t] = "idle"
    /\ lock = 0
    /\ LET g == getUnsafe(db, key, fails) IN
       storeOp' = StoreOp("get", t, key, g.share.Metadata, g.share, g.found, g.err)
    /\ UNCHANGED <<db, lock, tpc, tloc, stale>>

\* CleanAllShares: db.RemoveAllByCollection, without taking the lock
CleanAllShares(t, fails) ==
    /\ tpc[t] = "idle"
    /\ db' = IF fails THEN db ELSE EmptyMap
    /\ stale' = IF fails THEN stale ELSE stale \cup {u \in Threads : tpc[u] = "update"}
    /\ storeOp' = StoreOp("clean", t, <<>>, NilMetadata, NoShare, FALSE, fails)
    /\ UNCHANGED <<lock, tpc, tloc>>

\* UpdateValidatorMetadata, lines 149-162: Lock, decode the key, getUnsafe,
\* set the metadata of the share read
UpdateValidatorMetadata(t, pk, m, fails) ==
    /\ tpc[t] = "idle"
    /\ lock = 0
    /\ LET k == HexDecodeString(pk)
           g == getUnsafe(db, k.bytes, fails)
       IN IF k.err \/ g.err \/ ~g.found
          THEN /\ storeOp' = StoreOp("update", t, k.bytes, m, NoShare, FALSE,
                                     k.err \/ g.err)
               /\ UNCHANGED <<lock, tpc, tloc>>
          ELSE /\ lock' = t
               /\ tpc' = [tpc EXCEPT ![t] = "update"]
               /\ tloc' = [tloc EXCEPT ![t] = [key |-> k.bytes,
                                               share |-> [g.share EXCEPT !.Metadata = m],
                                               before |-> g.share]]
               /\ UNCHANGED storeOp
    /\ UNCHANGED <<db, stale>>

\* UpdateValidatorMetadata, line 163 and the deferred Unlock: saveUnsafe
UpdateSave(t, fails) ==
    /\ tpc[t] = "update"
    /\ LET r == saveUnsafe(db, tloc[t].share, fails) IN
       /\ db' = r.db
       /\ storeOp' = StoreOp("update", t, tloc[t].key, tloc[t].share.Metadata,
                             tloc[t].before, TRUE, r.err)
    /\ lock' = 0
    /\ tpc' = [tpc EXCEPT ![t] = "idle"]
    /\ tloc' = [tloc EXCEPT ![t] = NoLocal]
    /\ stale' = stale \ {t}

StoreNext ==
    \/ \E t \in Threads, s \in StoreShares, f \in BOOLEAN :
          SaveValidatorShare(t, s, f) /\ UNCHANGED <<brokerVars, pqVars, syncVars, shareVars, ibftVars, dsyncVars, moreVars>>
    \/ \E t \in Threads, k \in PublicKeys, f \in BOOLEAN :
          GetValidatorShare(t, PublicKeySerialize(k), f)
          /\ UNCHANGED <<brokerVars, pqVars, syncVars, shareVars, ibftVars, dsyncVars, moreVars>>
    \/ \E t \in Threads, f \in BOOLEAN :
          CleanAllShares(t, f) /\ UNCHANGED <<brokerVars, pqVars, syncVars, shareVars, ibftVars, dsyncVars, moreVars>>
    \/ \E t \in Threads, pk \in PkStrings, m \in NewMetadatas, f \in BOOLEAN :
          UpdateValidatorMetadata(t, pk, m, f)
          /\ UNCHANGED <<brokerVars, pqVars, syncVars, shareVars, ibftVars, dsyncVars, moreVars>>
    \/ \E t \in Threads, f \in BOOLEAN :
          UpdateSave(t, f) /\ UNCHANGED <<brokerVars, pqVars, syncVars, shareVars, ibftVars, dsyncVars, moreVars>>

SpecStore == StoreInit /\ [][StoreNext]_vars

(***************************************************************************)
(* Share store properties                                                  *)
(***************************************************************************)
\* C14: for a validator public key stored in the share store,
\* UpdateValidatorMetadata(pk, m) followed by GetValidatorShare(pk) returns
\* a share whose metadata is m and whose node id, share secret and committee
\* are the same as before the update.
C14_UpdateThenGet ==
    (storeOp.op = "update" /\ storeOp.found /\ ~storeOp.err) =>
        LET g == getUnsafe(db, storeOp.key, FALSE) IN
        /\ g.found /\ ~g.err
        /\ g.share.Metadata = storeOp.m
        /\ g.share.NodeID = storeOp.before.NodeID
        /\ g.share.ShareKey = storeOp.before.ShareKey
        /\ g.share.Committee = storeOp.before.Committee

\* an update has replaced the metadata of a stored share by another value
C14_Witness ==
    /\ storeOp.op = "update" /\ storeOp.found /\ ~storeOp.err
    /\ storeOp.m.present
    /\ storeOp.before.Metadata # storeOp.m
    /\ storeOp.key \in DOMAIN db

\* C15: all share-store writes (SaveValidatorShare, UpdateValidatorMetadata,
\* CleanAllShares) run under the store's exclusive lock: the stored shares
\* change only in a step of a goroutine while no other goroutine holds the
\* lock, and a CleanAllShares that interleaves with an
\* UpdateValidatorMetadata never leaves a share in the store that was read
\* before the clean and written back after it.
C15_WritesUnderLock ==
    [][ /\ db' # db => (lock = 0 \/ lock = storeOp'.t)
        /\ \A t \in Threads :
              (tpc[t] = "update" /\ tpc'[t] = "idle" /\ ~storeOp'.err)
                 => t \notin stale ]_vars

(***************************************************************************)
(* IBFT instances: one committee of four, one lambda, one sequence number  *)
(***************************************************************************)
MaxIRound == 2    \* highest round an instance reaches
MaxInject == 1    \* messages the environment adds to the brokers

Nodes == 1..CommitteeSize

\* the sequence number of the instances: node 1 leads round 1
SeqNumber == 3

Leader(r) == ((SeqNumber + r) % CommitteeSize) + 1

NoValue == 0
\* the input values of the nodes when they differ (node 1: 0xAB), and a
\* value no node was started with
InputOf(n) == 170 + n
ForeignValue == 99

IMsg(type, r, v, signer, pr, pv) ==
    [type |-> type, round |-> r, value |-> v, signer |-> signer,
     preparedRound |-> pr, preparedValue |-> pv]

PrePrepareMsg(r, v, signer) == IMsg("PrePrepare", r, v, signer, 0, NoValue)
PrepareMsg(r, v, signer) == IMsg("Prepare", r, v, signer, 0, NoValue)
CommitMsg(r, v, signer) == IMsg("Commit", r, v, signer, 0, NoValue)
\* a ChangeRound for round r with the optional justification
ChangeRoundJustified(r, signer, pr, pv) == IMsg("ChangeRound", r, NoValue, signer, pr, pv)

\* the brokers: every broadcast message reaches the broker of every node
\* (no loss); a message may be held in several copies
Copies(bag, m) == IF m \in DOMAIN bag THEN bag[m] ELSE 0

Broadcast(bag, ms) ==
    [m \in DOMAIN bag \cup ms |-> Copies(bag, m) + (IF m \in ms THEN 1 ELSE 0)]

Held(bag, type, r) == {m \in DOMAIN bag : m.type = type /\ m.round = r}

RECURSIVE CountCopies(_, _)
CountCopies(bag, S) ==
    IF S = {} THEN 0
    ELSE LET m == CHOOSE x \in S : TRUE IN bag[m] + CountCopies(bag, S \ {m})

\* variant: every node has to sign
Quorum_all(n) == n

\* 2F+1
Quorum(n) == ThresholdSize(n)

\* variant: the messages are counted, not their signers
PrepareQuorum_copies(bag, r, v) ==
    CountCopies(bag, {m \in Held(bag, "Prepare", r) : m.value = v}) >= Quorum(CommitteeSize)

PrepareQuorum(bag, r, v) ==
    Cardinality({m.signer : m \in {x \in Held(bag, "Prepare", r) : x.value = v}})
        >= Quorum(CommitteeSize)

CommitSigners(bag, r, v) == {m.signer : m \in {x \in Held(bag, "Commit", r) : x.value = v}}

CommitQuorum(bag, r, v) == Cardinality(CommitSigners(bag, r, v)) >= Quorum(CommitteeSize)

ChangeRoundQuorum(bag, r) ==
    Cardinality({m.signer : m \in Held(bag, "ChangeRound", r)}) >= Quorum(CommitteeSize)

\* variant: the leader always proposes its own input
JustifiedValue_own(bag, r, input) == input

\* the value the leader of round r proposes: the prepared value with the
\* highest prepared round among the ChangeRound messages for r, else its
\* own input
JustifiedValue(bag, r, input) ==
    LET js == {m \in Held(bag, "ChangeRound", r) : m.preparedRound > 0} IN
    IF js = {} THEN input
    ELSE (CHOOSE m \in js : \A x \in js : x.preparedRound <= m.preparedRound).preparedValue

\* variant: a decided instance still reads Commit messages
AwaitsCommits_noLatch(st) == st.stage \in {"Commit", "Decided"}

\* the instance is at the stage that waits for the Commit quorum
AwaitsCommits(st) == st.stage = "Commit"

InstanceState(stage, r, pr, pv, input, decided) ==
    [stage |-> stage, round |-> r, preparedRound |-> pr, preparedValue |-> pv,
     inputValue |-> input, decidedValue |-> decided]

NotStarted(input) == InstanceState("NotStarted", 0, 0, NoValue, input, NoValue)

\* the decided certificate: the value and the signers of the aggregated
\* Commit messages
Certificate(v, r, signers) == [value |-> v, round |-> r, signers |-> signers]

\* the step of node n: its new state and the messages it broadcasts
Step(n, st, ms) ==
    /\ instances' = [instances EXCEPT ![n] = st]
    /\ net' = Broadcast(net, ms)

IBFTInit ==
    /\ queue = EmptyMap
    /\ allMessages = EmptyMap
    /\ q = EmptyMap
    /\ msgs = EmptyMap
    /\ nextId = 1
    /\ purged = FALSE
    /\ lastOp = Op("new", NoKey, <<>>, NoRet, NoRet)
    /\ round = 0
    /\ startRound = 0
    /\ pqBucket = <<>>
    /\ storedOffset = NoOffset
    /\ head = defaultSyncOffset
    /\ pc = "idle"
    /\ providedOffset = Nil
    /\ syncOffset = Nil
    /\ cn = <<>>
    /\ syncEndedEvent = NoSyncEnded
    /\ syncWgDone = FALSE
    /\ execQueue = <<>>
    /\ qErrors = {}
    /\ result = "none"
    /\ delivered = {}
    /\ handled = {}
    /\ storedAtCall = NoOffset
    /\ share = <<>>
    /\ obj = <<>>
    /\ shareOut = <<>>
    /\ sizes = <<>>
    /\ db = <<>>
    /\ lock = 0
    /\ tpc = <<>>
    /\ tloc = <<>>
    /\ stale = {}
    /\ storeOp = <<>>
    /\ instances = [n \in Nodes |-> NotStarted(InputOf(n))]
    /\ net = EmptyMap
    /\ decidedCh = [n \in Nodes |-> <<>>]
    /\ injected = 0
    /\ decidedStore = <<>>
    /\ highestKnown = 0
    /\ startHeight = 0
    /\ peerHeight = <<>>
    /\ usablePeers = {}
    /\ dsPc = "idle"
    /\ dsPeer = 0
    /\ dsMax = 0
    /\ dsFrom = 0
    /\ lastBatch = <<>>
    /\ msgMutex = 0
    /\ lpc = <<>>
    /\ lloc = <<>>
    /\ added = <<>>
    /\ popped = <<>>
    /\ vShare = <<>>
    /\ signedMsg = <<>>
    /\ pksOut = <<>>
    /\ verifyOut = <<>>
    /\ wStart = 0
    /\ wLimit = 0
    /\ wStopAtLimit = FALSE
    /\ wMin = 0
    /\ interval = 0
    /\ wpc = "idle"
    /\ wN = 0
    /\ wSteps = 0
    /\ wCtxDone = FALSE
    /\ cfgTopics = {}
    /\ psSubscribedTopics = <<>>
    /\ psTopicsLock = <<>>
    /\ ctxDone = FALSE
    /\ listeners = <<>>
    /\ cancels = <<>>
    /\ callers = <<>>
    /\ mainWaiting = <<>>
    /\ mainRunning = 0
    /\ tgPc = <<>>
    /\ validatorShares = {}
    /\ ibftSyncEnabled = FALSE
    /\ eqStop = FALSE
    /\ eqQueue = <<>>
    /\ eqLock = 0
    /\ eqPc = <<>>
    /\ eqLoc = <<>>
    /\ eqNext = 0
    /\ eqAccepted = <<>>
    /\ eqReturned = <<>>
    /\ eqLast = <<>>
    /\ suPc = "idle"
    /\ suPk = 0
    /\ suSyncs = <<>>
    /\ suResult = "none"
    /\ networkReadersQueue = {}
    /\ decidedReadersQueue = {}
    /\ suQueued = FALSE
    /\ qrN = 0
    /\ qrSizes = <<>>
    /\ signersA = {}
    /\ signersB = {}

\* NotStarted -> PrePrepare: Start(input_value) sets round = 1; the leader
\* broadcasts PrePrepare(input_value) and moves to Prepare, the others wait
\* for the PrePrepare
Start(n) ==
    LET st == instances[n] IN
    /\ st.stage = "NotStarted"
    /\ IF Leader(1) = n
       THEN Step(n, [st EXCEPT !.stage = "Prepare", !.round = 1],
                 {PrePrepareMsg(1, st.inputValue, n)})
       ELSE Step(n, [st EXCEPT !.stage = "PrePrepare", !.round = 1], {})
    /\ UNCHANGED <<decidedCh, injected>>

\* PrePrepare -> Prepare: a PrePrepare of the leader for the current round
UponPrePrepare(n) ==
    LET st == instances[n] IN
    /\ st.stage = "PrePrepare"
    /\ \E m \in Held(net, "PrePrepare", st.round) :
          /\ m.signer = Leader(st.round)
          /\ Step(n, [st EXCEPT !.stage = "Prepare"],
                  {PrepareMsg(st.round, m.value, n)})
    /\ UNCHANGED <<decidedCh, injected>>

\* Prepare -> Commit: 2F+1 distinct-signer Prepares on one value at the
\* current round
UponPrepareQuorum(n) ==
    LET st == instances[n] IN
    /\ st.stage = "Prepare"
    /\ \E v \in {m.value : m \in Held(net, "Prepare", st.round)} :
          /\ PrepareQuorum(net, st.round, v)
          /\ Step(n, [st EXCEPT !.stage = "Commit", !.preparedRound = st.round,
                                !.preparedValue = v],
                  {CommitMsg(st.round, v, n)})
    /\ UNCHANGED <<decidedCh, injected>>

\* Commit -> Decided: 2F+1 distinct-signer Commits on one value; the
\* certificate is emitted on the decided channel
UponCommitQuorum(n) ==
    LET st == instances[n] IN
    /\ AwaitsCommits(st)
    /\ \E v \in {m.value : m \in Held(net, "Commit", st.round)} :
          /\ CommitQuorum(net, st.round, v)
          /\ Step(n, [st EXCEPT !.stage = "Decided", !.decidedValue = v], {})
          /\ decidedCh' = [decidedCh EXCEPT ![n] =
                             Append(@, Certificate(v, st.round,
                                                   CommitSigners(net, st.round, v)))]
    /\ UNCHANGED injected

\* Any -> ChangeRound: the round timer expires
Timeout(n) ==
    LET st == instances[n] IN
    /\ st.stage \in {"PrePrepare", "Prepare", "Commit"}
    /\ st.round < MaxIRound
    /\ Step(n, [st EXCEPT !.stage = "ChangeRound"],
            {ChangeRoundJustified(st.round + 1, n, st.preparedRound, st.preparedValue)})
    /\ UNCHANGED <<decidedCh, injected>>

\* ChangeRound -> PrePrepare: 2F+1 ChangeRound messages for a later round;
\* the leader of that round broadcasts the PrePrepare
UponChangeRoundQuorum(n) ==
    LET st == instances[n] IN
    /\ st.stage = "ChangeRound"
    /\ \E r \in (st.round + 1)..MaxIRound :
          /\ ChangeRoundQuorum(net, r)
          /\ Step(n, [st EXCEPT !.stage = "PrePrepare", !.round = r],
                  IF Leader(r) = n
                  THEN {PrePrepareMsg(r, JustifiedValue(net, r, st.inputValue), n)}
                  ELSE {})
    /\ UNCHANGED <<decidedCh, injected>>

\* the node that may also sign conflicting messages (F = 1)
FaultyNode == 4

\* what the environment may add to the brokers: another copy of a message
\* they hold, or a Prepare or Commit of the faulty node for any round with
\* a value of its own
InjectMsgs ==
    DOMAIN net
    \cup {PrepareMsg(r, ForeignValue, FaultyNode) : r \in 1..MaxIRound}
    \cup {CommitMsg(r, ForeignValue, FaultyNode) : r \in 1..MaxIRound}

Inject(m) ==
    /\ injected < MaxInject
    /\ injected' = injected + 1
    /\ net' = Broadcast(net, {m})
    /\ UNCHANGED <<instances, decidedCh>>

IBFTNext ==
    \/ \E n \in Nodes : Start(n) /\ UNCHANGED <<brokerVars, pqVars, syncVars, shareVars, storeVars, dsyncVars, moreVars>>
    \/ \E n \in Nodes : UponPrePrepare(n) /\ UNCHANGED <<brokerVars, pqVars, syncVars, shareVars, storeVars, dsyncVars, moreVars>>
    \/ \E n \in Nodes : UponPrepareQuorum(n) /\ UNCHANGED <<brokerVars, pqVars, syncVars, shareVars, storeVars, dsyncVars, moreVars>>
    \/ \E n \in Nodes : UponCommitQuorum(n) /\ UNCHANGED <<brokerVars, pqVars, syncVars, shareVars, storeVars, dsyncVars, moreVars>>
    \/ \E n \in Nodes : Timeout(n) /\ UNCHANGED <<brokerVars, pqVars, syncVars, shareVars, storeVars, dsyncVars, moreVars>>
    \/ \E n \in Nodes : UponChangeRoundQuorum(n) /\ UNCHANGED <<brokerVars, pqVars, syncVars, shareVars, storeVars, dsyncVars, moreVars>>
    \/ \E m \in InjectMsgs : Inject(m) /\ UNCHANGED <<brokerVars, pqVars, syncVars, shareVars, storeVars, dsyncVars, moreVars>>

SpecIBFT == IBFTInit /\ [][IBFTNext]_vars

\* the happy path: every node is started with the same input, no message
\* is lost or added, no round timer expires
LiveInputs == {171, 172}

IBFTLiveInit ==
    /\ queue = EmptyMap
    /\ allMessages = EmptyMap
    /\ q = EmptyMap
    /\ msgs = EmptyMap
    /\ nextId = 1
    /\ purged = FALSE
    /\ lastOp = Op("new", NoKey, <<>>, NoRet, NoRet)
    /\ round = 0
    /\ startRound = 0
    /\ pqBucket = <<>>
    /\ storedOffset = NoOffset
    /\ head = defaultSyncOffset
    /\ pc = "idle"
    /\ providedOffset = Nil
    /\ syncOffset = Nil
    /\ cn = <<>>
    /\ syncEndedEvent = NoSyncEnded
    /\ syncWgDone = FALSE
    /\ execQueue = <<>>
    /\ qErrors = {}
    /\ result = "none"
    /\ delivered = {}
    /\ handled = {}
    /\ storedAtCall = NoOffset
    /\ share = <<>>
    /\ obj = <<>>
    /\ shareOut = <<>>
    /\ sizes = <<>>
    /\ db = <<>>
    /\ lock = 0
    /\ tpc = <<>>
    /\ tloc = <<>>
    /\ stale = {}
    /\ storeOp = <<>>
    /\ \E v \in LiveInputs : instances = [n \in Nodes |-> NotStarted(v)]
    /\ net = EmptyMap
    /\ decidedCh = [n \in Nodes |-> <<>>]
    /\ injected = 0
    /\ decidedStore = <<>>
    /\ highestKnown = 0
    /\ startHeight = 0
    /\ peerHeight = <<>>
    /\ usablePeers = {}
    /\ dsPc = "idle"
    /\ dsPeer = 0
    /\ dsMax = 0
    /\ dsFrom = 0
    /\ lastBatch = <<>>
    /\ msgMutex = 0
    /\ lpc = <<>>
    /\ lloc = <<>>
    /\ added = <<>>
    /\ popped = <<>>
    /\ vShare = <<>>
    /\ signedMsg = <<>>
    /\ pksOut = <<>>
    /\ verifyOut = <<>>
    /\ wStart = 0
    /\ wLimit = 0
    /\ wStopAtLimit = FALSE
    /\ wMin = 0
    /\ interval = 0
    /\ wpc = "idle"
    /\ wN = 0
    /\ wSteps = 0
    /\ wCtxDone = FALSE
    /\ cfgTopics = {}
    /\ psSubscribedTopics = <<>>
    /\ psTopicsLock = <<>>
    /\ ctxDone = FALSE
    /\ listeners = <<>>
    /\ cancels = <<>>
    /\ callers = <<>>
    /\ mainWaiting = <<>>
    /\ mainRunning = 0
    /\ tgPc = <<>>
    /\ validatorShares = {}
    /\ ibftSyncEnabled = FALSE
    /\ eqStop = FALSE
    /\ eqQueue = <<>>
    /\ eqLock = 0
    /\ eqPc = <<>>
    /\ eqLoc = <<>>
    /\ eqNext = 0
    /\ eqAccepted = <<>>
    /\ eqReturned = <<>>
    /\ eqLast = <<>>
    /\ suPc = "idle"
    /\ suPk = 0
    /\ suSyncs = <<>>
    /\ suResult = "none"
    /\ networkReadersQueue = {}
    /\ decidedReadersQueue = {}
    /\ suQueued = FALSE
    /\ qrN = 0
    /\ qrSizes = <<>>
    /\ signersA = {}
    /\ signersB = {}

IBFTLiveNext ==
    \/ \E n \in Nodes : Start(n) /\ UNCHANGED <<brokerVars, pqVars, syncVars, shareVars, storeVars, dsyncVars, moreVars>>
    \/ \E n \in Nodes : UponPrePrepare(n) /\ UNCHANGED <<brokerVars, pqVars, syncVars, shareVars, storeVars, dsyncVars, moreVars>>
    \/ \E n \in Nodes : UponPrepareQuorum(n) /\ UNCHANGED <<brokerVars, pqVars, syncVars, shareVars, storeVars, dsyncVars, moreVars>>
    \/ \E n \in Nodes : UponCommitQuorum(n) /\ UNCHANGED <<brokerVars, pqVars, syncVars, shareVars, storeVars, dsyncVars, moreVars>>

\* every instance runs in its own goroutine and keeps pulling from its
\* broker: a step that stays possible is eventually taken
SpecIBFTLive == IBFTLiveInit /\ [][IBFTLiveNext]_vars /\ WF_vars(IBFTLiveNext)

(***************************************************************************)
(* IBFT instance properties                                                *)
(***************************************************************************)
\* C16: every IBFT instance that reaches stage Decided has exactly one
\* decided value and emits its decided certificate exactly once on the
\* decided channel; messages for the same sequence number that arrive after
\* the latch never change the decided value or cause a second emission.
C16_DecidedLatch ==
    /\ [](\A n \in Nodes :
            /\ instances[n].stage = "Decided" <=> Len(decidedCh[n]) = 1
            /\ instances[n].stage # "Decided" =>
                  decidedCh[n] = <<>> /\ instances[n].decidedValue = NoValue
            /\ instances[n].stage = "Decided" =>
                  /\ instances[n].decidedValue # NoValue
                  /\ decidedCh[n][1].value = instances[n].decidedValue)
    /\ [][\A n \in Nodes :
            instances[n].stage = "Decided" =>
               instances'[n] = instances[n] /\ decidedCh'[n] = decidedCh[n]]_vars

\* a node has decided, and a Commit that is not part of its certificate
\* (a later one for the decided value, or one for another value) is held
C16_Witness ==
    \E n \in Nodes :
       /\ instances[n].stage = "Decided"
       /\ Len(decidedCh[n]) = 1
       /\ \E m \in Held(net, "Commit", instances[n].round) :
             /\ m.value = instances[n].decidedValue
             /\ m.signer \notin decidedCh[n][1].signers
       /\ \E m \in Held(net, "Commit", instances[n].round) :
             m.value # instances[n].decidedValue

\* C17: an instance moves from Prepare to Commit (recording prepared_round
\* and prepared_value and broadcasting Commit) only when it holds Prepare
\* messages from at least 2F+1 distinct signers for the same value at its
\* current round; duplicate Prepares from one signer, Prepares for another
\* round or for different values never make up the quorum.
C17_PrepareQuorumOnly ==
    [][\A n \in Nodes :
         /\ (instances'[n].stage = "Commit" /\ instances[n].stage # "Commit") =>
               LET r == instances[n].round
                   v == instances'[n].preparedValue
               IN /\ instances[n].stage = "Prepare"
                  /\ Cardinality({sg \in Nodes : PrepareMsg(r, v, sg) \in DOMAIN net})
                        >= 2 * F + 1
                  /\ instances'[n].round = r
                  /\ instances'[n].preparedRound = r
                  /\ CommitMsg(r, v, n) \in DOMAIN net'
         /\ ( \/ instances'[n].preparedRound # instances[n].preparedRound
              \/ instances'[n].preparedValue # instances[n].preparedValue )
               => (instances'[n].stage = "Commit" /\ instances[n].stage = "Prepare")]_vars

\* a node has moved to Commit at a round for which the brokers hold a
\* second copy of a Prepare and a Prepare for another value, and Prepares
\* of another round are held as well
C17_Witness ==
    \E n \in Nodes :
       /\ instances[n].stage = "Commit"
       /\ instances[n].preparedRound = instances[n].round
       /\ \E m \in Held(net, "Prepare", instances[n].round) :
             net[m] > 1 \/ m.value # instances[n].preparedValue
       /\ \E m \in DOMAIN net : m.type = "Prepare" /\ m.round # instances[n].round

AllDecidedAtRound1 ==
    \A n \in Nodes :
       /\ instances[n].stage = "Decided"
       /\ instances[n].round = 1
       /\ instances[n].decidedValue = instances[Leader(1)].inputValue

\* C18: 4-node happy path: with a committee of 4, all nodes started with
\* the same input, no message loss and no round timeout, every instance
\* eventually reaches stage Decided at round 1 with decided value equal to
\* the leader's input value.
C18_HappyPathDecides == <>AllDecidedAtRound1

\* all four instances have decided and emitted their certificate
C18_Witness ==
    /\ AllDecidedAtRound1
    /\ CommitteeSize = 4
    /\ \A n \in Nodes : Len(decidedCh[n]) = 1 /\ decidedCh[n][1].value \in LiveInputs

(***************************************************************************)
(* Decided-history sync (client side)                                      *)
(***************************************************************************)
MaxHeight == 4          \* highest sequence number a peer advertises
MaxBatchResponse == 2   \* the configured max-batch-response size

\* p2pNetwork.MaxBatch
MaxBatch == MaxBatchResponse

SyncPeers == {1, 2}

\* the client queries at most this many peers
KPeers == 2

\* a signed decided message of a batch: its sequence number and whether its
\* signature and committee verify
Decided(seq, ok) == [seq |-> seq, ok |-> ok]

\* the answers of a peer to GetDecidedRange(lambda, from, to): the range or
\* a prefix of it, or a defective batch (a message that does not verify, a
\* missing sequence number, a batch that starts too late)
GoodBatches(from, to) ==
    {[i \in 1..k |-> Decided(from + i - 1, TRUE)] : k \in 1..(to - from + 1)}

BadBatches(from, to) ==
    {[i \in 1..Len(b) |-> IF i = Len(b) THEN Decided(b[i].seq, FALSE) ELSE b[i]] :
        b \in GoodBatches(from, to)}
    \cup {[i \in 1..Len(b) |-> IF i = Len(b) THEN Decided(b[i].seq + 1, TRUE) ELSE b[i]] :
            b \in GoodBatches(from, to)}

\* variant: only the signatures are checked
ValidBatch_signatures(b, from, to) ==
    /\ Len(b) >= 1
    /\ \A i \in DOMAIN b : b[i].ok

\* the validation of a batch: signature and committee of every message, and
\* sequence contiguity with the decided store
ValidBatch(b, from, to) ==
    /\ Len(b) >= 1
    /\ Len(b) <= MaxBatch
    /\ \A i \in DOMAIN b : b[i].ok /\ b[i].seq = from + i - 1
    /\ b[Len(b)].seq <= to

\* the peer with the maximum advertised height among those queried
Best(asked) == CHOOSE p \in asked : \A o \in asked : peerHeight[o] <= peerHeight[p]

DecidedSyncInit ==
    /\ queue = EmptyMap
    /\ allMessages = EmptyMap
    /\ q = EmptyMap
    /\ msgs = EmptyMap
    /\ nextId = 1
    /\ purged = FALSE
    /\ lastOp = Op("new", NoKey, <<>>, NoRet, NoRet)
    /\ round = 0
    /\ startRound = 0
    /\ pqBucket = <<>>
    /\ storedOffset = NoOffset
    /\ head = defaultSyncOffset
    /\ pc = "idle"
    /\ providedOffset = Nil
    /\ syncOffset = Nil
    /\ cn = <<>>
    /\ syncEndedEvent = NoSyncEnded
    /\ syncWgDone = FALSE
    /\ execQueue = <<>>
    /\ qErrors = {}
    /\ result = "none"
    /\ delivered = {}
    /\ handled = {}
    /\ storedAtCall = NoOffset
    /\ share = <<>>
    /\ obj = <<>>
    /\ shareOut = <<>>
    /\ sizes = <<>>
    /\ db = <<>>
    /\ lock = 0
    /\ tpc = <<>>
    /\ tloc = <<>>
    /\ stale = {}
    /\ storeOp = <<>>
    /\ instances = <<>>
    /\ net = <<>>
    /\ decidedCh = <<>>
    /\ injected = 0
    /\ decidedStore = <<>>
    /\ highestKnown \in 0..MaxHeight
    /\ startHeight = highestKnown
    /\ peerHeight \in [SyncPeers -> 0..MaxHeight]
    /\ usablePeers = SyncPeers
    /\ dsPc = "query"
    /\ dsPeer = 0
    /\ dsMax = 0
    /\ dsFrom = 0
    /\ lastBatch = <<>>
    /\ msgMutex = 0
    /\ lpc = <<>>
    /\ lloc = <<>>
    /\ added = <<>>
    /\ popped = <<>>
    /\ vShare = <<>>
    /\ signedMsg = <<>>
    /\ pksOut = <<>>
    /\ verifyOut = <<>>
    /\ wStart = 0
    /\ wLimit = 0
    /\ wStopAtLimit = FALSE
    /\ wMin = 0
    /\ interval = 0
    /\ wpc = "idle"
    /\ wN = 0
    /\ wSteps = 0
    /\ wCtxDone = FALSE
    /\ cfgTopics = {}
    /\ psSubscribedTopics = <<>>
    /\ psTopicsLock = <<>>
    /\ ctxDone = FALSE
    /\ listeners = <<>>
    /\ cancels = <<>>
    /\ callers = <<>>
    /\ mainWaiting = <<>>
    /\ mainRunning = 0
    /\ tgPc = <<>>
    /\ validatorShares = {}
    /\ ibftSyncEnabled = FALSE
    /\ eqStop = FALSE
    /\ eqQueue = <<>>
    /\ eqLock = 0
    /\ eqPc = <<>>
    /\ eqLoc = <<>>
    /\ eqNext = 0
    /\ eqAccepted = <<>>
    /\ eqReturned = <<>>
    /\ eqLast = <<>>
    /\ suPc = "idle"
    /\ suPk = 0
    /\ suSyncs = <<>>
    /\ suResult = "none"
    /\ networkReadersQueue = {}
    /\ decidedReadersQueue = {}
    /\ suQueued = FALSE
    /\ qrN = 0
    /\ qrSizes = <<>>
    /\ signersA = {}
    /\ signersB = {}

\* query up to K peers and pick the maximum advertised height
QueryPeers(asked) ==
    /\ dsPc = "query"
    /\ asked \subseteq usablePeers
    /\ asked # {}
    /\ Cardinality(asked) <= KPeers
    /\ dsPeer' = Best(asked)
    /\ dsMax' = peerHeight[Best(asked)]
    /\ dsFrom' = highestKnown
    /\ dsPc' = IF peerHeight[Best(asked)] > highestKnown THEN "pull" ELSE "done"
    /\ UNCHANGED <<decidedStore, highestKnown, startHeight, peerHeight, usablePeers,
                   lastBatch>>

\* no peer is left to ask
NoPeers ==
    /\ dsPc = "query"
    /\ usablePeers = {}
    /\ dsPc' = "failed"
    /\ UNCHANGED <<decidedStore, highestKnown, startHeight, peerHeight, usablePeers,
                   dsPeer, dsMax, dsFrom, lastBatch>>

\* pull the next batch (stored+1 .. max, capped at max_batch): a batch that
\* passes validation is appended to the decided store, a batch that fails
\* drops the peer and the client queries again
PullBatch(b) ==
    LET from == highestKnown + 1
        to == Min({from + MaxBatch - 1, dsMax})
    IN /\ dsPc = "pull"
       /\ b \in GoodBatches(from, to) \cup BadBatches(from, to)
       /\ lastBatch' = b
       /\ IF ValidBatch(b, from, to)
          THEN /\ decidedStore' = decidedStore \o [i \in DOMAIN b |-> b[i].seq]
               /\ highestKnown' = b[Len(b)].seq
               /\ dsPc' = IF b[Len(b)].seq = dsMax THEN "done" ELSE "pull"
               /\ UNCHANGED usablePeers
          ELSE /\ usablePeers' = usablePeers \ {dsPeer}
               /\ dsPc' = "query"
               /\ UNCHANGED <<decidedStore, highestKnown>>
       /\ UNCHANGED <<startHeight, peerHeight, dsPeer, dsMax, dsFrom>>

DecidedSyncNext ==
    \/ \E asked \in SUBSET SyncPeers :
          QueryPeers(asked) /\ UNCHANGED <<brokerVars, pqVars, syncVars, shareVars, storeVars, ibftVars, moreVars>>
    \/ NoPeers /\ UNCHANGED <<brokerVars, pqVars, syncVars, shareVars, storeVars, ibftVars, moreVars>>
    \/ \E b \in GoodBatches(highestKnown + 1, highestKnown + MaxBatch)
                  \cup BadBatches(highestKnown + 1, highestKnown + MaxBatch) :
          PullBatch(b) /\ UNCHANGED <<brokerVars, pqVars, syncVars, shareVars, storeVars, ibftVars, moreVars>>

SpecDecidedSync == DecidedSyncInit /\ [][DecidedSyncNext]_vars

(***************************************************************************)
(* Decided-history sync properties                                         *)
(***************************************************************************)
\* the last batch verifies and continues the persisted range
Contiguous(b, stored) ==
    /\ b # <<>>
    /\ \A i \in DOMAIN b : b[i].ok /\ b[i].seq = stored + i

\* C20: during and after decided-history sync, the sequence numbers
\* persisted in the decided store for a lambda always form a strictly
\* increasing range with no gaps, each persisted only after its batch
\* passed validation; a batch that fails validation persists nothing and
\* only drops the peer, and a sync from local height h against a peer
\* maximum m in batches of at most max_batch ends with exactly sequences
\* h+1..m added.
C20_DecidedSyncRange ==
    /\ [](/\ \A i \in DOMAIN decidedStore : decidedStore[i] = startHeight + i
          /\ highestKnown = startHeight + Len(decidedStore)
          /\ dsPc = "done" =>
                /\ highestKnown = Max({dsFrom, dsMax})
                /\ \A sq \in (dsFrom + 1)..dsMax : sq \in Range(decidedStore))
    /\ [][dsPc = "pull" =>
            /\ Len(lastBatch') <= MaxBatch
            /\ IF Contiguous(lastBatch', highestKnown)
               THEN /\ decidedStore' =
                          decidedStore \o [i \in DOMAIN lastBatch' |-> lastBatch'[i].seq]
                    /\ usablePeers' = usablePeers
               ELSE /\ decidedStore' = decidedStore
                    /\ highestKnown' = highestKnown
                    /\ usablePeers' = usablePeers \ {dsPeer}
                    /\ dsPc' = "query"]_vars

\* a sync that took more than one batch, lost a peer to a failed batch and
\* ended at the maximum of the remaining peer
C20_Witness ==
    /\ dsPc = "done"
    /\ Len(decidedStore) > MaxBatch
    /\ Cardinality(usablePeers) < Cardinality(SyncPeers)
    /\ highestKnown = dsMax
    /\ startHeight < dsFrom

(***************************************************************************)
(* Broker shared by concurrent network listeners and the instance          *)
(***************************************************************************)
Listeners == {1, 2}

\* variant: Lock() returns while another goroutine holds the mutex
MutexFree_unlocked(mu) == TRUE

\* q.msgMutex.Lock() returns when no goroutine holds the mutex
MutexFree(mu) == mu = 0

\* the locals of an AddMessage call: msg, msgContainer.id and the buckets
\* read at lines 72-76
AddLocal(m, id, readQ, readC) == [msg |-> m, id |-> id, readQ |-> readQ, readC |-> readC]

NoAddLocal == AddLocal(Message(UnknownType, "-", 0, 0), NoId, EmptyMap, EmptyMap)

ConcInit ==
    /\ queue = EmptyMap
    /\ allMessages = EmptyMap
    /\ q = EmptyMap
    /\ msgs = EmptyMap
    /\ nextId = 1
    /\ purged = FALSE
    /\ lastOp = Op("new", NoKey, <<>>, NoRet, NoRet)
    /\ round = 0
    /\ startRound = 0
    /\ pqBucket = <<>>
    /\ storedOffset = NoOffset
    /\ head = defaultSyncOffset
    /\ pc = "idle"
    /\ providedOffset = Nil
    /\ syncOffset = Nil
    /\ cn = <<>>
    /\ syncEndedEvent = NoSyncEnded
    /\ syncWgDone = FALSE
    /\ execQueue = <<>>
    /\ qErrors = {}
    /\ result = "none"
    /\ delivered = {}
    /\ handled = {}
    /\ storedAtCall = NoOffset
    /\ share = <<>>
    /\ obj = <<>>
    /\ shareOut = <<>>
    /\ sizes = <<>>
    /\ db = <<>>
    /\ lock = 0
    /\ tpc = <<>>
    /\ tloc = <<>>
    /\ stale = {}
    /\ storeOp = <<>>
    /\ instances = <<>>
    /\ net = <<>>
    /\ decidedCh = <<>>
    /\ injected = 0
    /\ decidedStore = <<>>
    /\ highestKnown = 0
    /\ startHeight = 0
    /\ peerHeight = <<>>
    /\ usablePeers = {}
    /\ dsPc = "idle"
    /\ dsPeer = 0
    /\ dsMax = 0
    /\ dsFrom = 0
    /\ lastBatch = <<>>
    /\ vShare = <<>>
    /\ signedMsg = <<>>
    /\ pksOut = <<>>
    /\ verifyOut = <<>>
    /\ wStart = 0
    /\ wLimit = 0
    /\ wStopAtLimit = FALSE
    /\ wMin = 0
    /\ interval = 0
    /\ wpc = "idle"
    /\ wN = 0
    /\ wSteps = 0
    /\ wCtxDone = FALSE
    /\ cfgTopics = {}
    /\ psSubscribedTopics = <<>>
    /\ psTopicsLock = <<>>
    /\ ctxDone = FALSE
    /\ listeners = <<>>
    /\ cancels = <<>>
    /\ callers = <<>>
    /\ mainWaiting = <<>>
    /\ mainRunning = 0
    /\ tgPc = <<>>
    /\ validatorShares = {}
    /\ ibftSyncEnabled = FALSE
    /\ eqStop = FALSE
    /\ eqQueue = <<>>
    /\ eqLock = 0
    /\ eqPc = <<>>
    /\ eqLoc = <<>>
    /\ eqNext = 0
    /\ eqAccepted = <<>>
    /\ eqReturned = <<>>
    /\ eqLast = <<>>
    /\ suPc = "idle"
    /\ suPk = 0
    /\ suSyncs = <<>>
    /\ suResult = "none"
    /\ networkReadersQueue = {}
    /\ decidedReadersQueue = {}
    /\ suQueued = FALSE
    /\ qrN = 0
    /\ qrSizes = <<>>
    /\ signersA = {}
    /\ signersB = {}
    /\ msgMutex = 0
    /\ lpc = [t \in Listeners |-> "idle"]
    /\ lloc = [t \in Listeners |-> NoAddLocal]
    /\ added = EmptyMap
    /\ popped = <<>>

\* a listener calls AddMessage(msg) and waits at Lock()
AddCall(t, m) ==
    /\ lpc[t] = "idle"
    /\ nextId <= MaxMsgs
    /\ lpc' = [lpc EXCEPT ![t] = "lock"]
    /\ lloc' = [lloc EXCEPT ![t] = AddLocal(m, NoId, EmptyMap, EmptyMap)]
    /\ UNCHANGED <<brokerVars, msgMutex, added, popped>>

\* Lock() returns; the index keys are computed and the container gets its
\* uuid
AddLock(t) ==
    /\ lpc[t] = "lock"
    /\ nextId <= MaxMsgs
    /\ MutexFree(msgMutex)
    /\ msgMutex' = t
    /\ lpc' = [lpc EXCEPT ![t] = "read"]
    /\ lloc' = [lloc EXCEPT ![t] = AddLocal(lloc[t].msg, nextId, EmptyMap, EmptyMap)]
    /\ nextId' = nextId + 1
    /\ UNCHANGED <<queue, allMessages, q, msgs, purged, lastOp, added, popped>>

\* the buckets of the container's indexes are read
AddRead(t) ==
    /\ lpc[t] = "read"
    /\ lpc' = [lpc EXCEPT ![t] = "write"]
    /\ lloc' = [lloc EXCEPT ![t] = AddLocal(lloc[t].msg, lloc[t].id, queue, q)]
    /\ UNCHANGED <<brokerVars, msgMutex, added, popped>>

\* the buckets are written back with the container appended, the container
\* is put in the id lookup, and the deferred Unlock() runs
AddWrite(t) ==
    LET c == messageContainer(lloc[t].id, lloc[t].msg)
        nq == appendToIndexes(lloc[t].readQ, c.indexes, c)
        nc == cacheAppendToIndexes(lloc[t].readC, c.indexes, c)
    IN /\ lpc[t] = "write"
       /\ queue' = [k \in DOMAIN queue \cup Range(c.indexes) |->
                      IF k \in Range(c.indexes) THEN nq[k] ELSE queue[k]]
       /\ q' = [k \in DOMAIN q \cup Range(c.indexes) |->
                  IF k \in Range(c.indexes) THEN nc[k] ELSE q[k]]
       /\ allMessages' = Put(allMessages, c.id, c)
       /\ msgs' = Put(msgs, c.id, c)
       /\ msgMutex' = 0
       /\ lpc' = [lpc EXCEPT ![t] = "idle"]
       /\ lloc' = [lloc EXCEPT ![t] = NoAddLocal]
       /\ added' = Put(added, c.id, c)
       /\ lastOp' = Op("add", NoKey, <<c.id>>, NoRet, NoRet)
       /\ UNCHANGED <<nextId, purged, popped>>

\* the instance pops: Lock(), the pop, Unlock()
ConcPopMessage(index) ==
    /\ MutexFree(msgMutex)
    /\ Len(popped) < MaxMsgs + 1
    /\ PopMessage(index)
    /\ popped' = IF lastOp'.ret.id # NoId THEN Append(popped, lastOp'.ret.id) ELSE popped
    /\ UNCHANGED <<msgMutex, lpc, lloc, added>>

ConcNext ==
    \/ \E t \in Listeners, m \in BrokerMsgs :
          AddCall(t, m) /\ UNCHANGED <<pqVars, syncVars, shareVars, storeVars, ibftVars, dsyncVars, verifyVars, waitVars, topicVars, execVars, evqVars, setupVars, quorumVars>>
    \/ \E t \in Listeners :
          AddLock(t) /\ UNCHANGED <<pqVars, syncVars, shareVars, storeVars, ibftVars, dsyncVars, verifyVars, waitVars, topicVars, execVars, evqVars, setupVars, quorumVars>>
    \/ \E t \in Listeners :
          AddRead(t) /\ UNCHANGED <<pqVars, syncVars, shareVars, storeVars, ibftVars, dsyncVars, verifyVars, waitVars, topicVars, execVars, evqVars, setupVars, quorumVars>>
    \/ \E t \in Listeners :
          AddWrite(t) /\ UNCHANGED <<pqVars, syncVars, shareVars, storeVars, ibftVars, dsyncVars, verifyVars, waitVars, topicVars, execVars, evqVars, setupVars, quorumVars>>
    \/ \E k \in BrokerKeys :
          ConcPopMessage(k) /\ UNCHANGED <<pqVars, syncVars, shareVars, storeVars, ibftVars, dsyncVars, verifyVars, waitVars, topicVars, execVars, evqVars, setupVars, quorumVars>>

SpecBrokerConc == ConcInit /\ [][ConcNext]_vars

(***************************************************************************)
(* Concurrent broker properties                                            *)
(***************************************************************************)
Occurrences(bucket, id) == Cardinality({i \in DOMAIN bucket : bucket[i].id = id})

\* the container is once in each of its buckets and in the id lookup
HeldOnce(qu, all, c) ==
    /\ c.id \in DOMAIN all
    /\ all[c.id] = c
    /\ \A i \in DOMAIN c.indexes : Occurrences(Bucket(qu, c.indexes[i]), c.id) = 1

\* C27: AddMessage is thread-safe: when several network listeners add
\* messages concurrently (also concurrently with pops by the instance), no
\* message is lost or duplicated; each added message gets an id different
\* from every other container's id and appears exactly once in each bucket
\* computed by the index functions and once in the id lookup.
C27_AddThreadSafe ==
    /\ \A id \in DOMAIN added \ Range(popped) :
          HeldOnce(queue, allMessages, added[id]) /\ HeldOnce(q, msgs, added[id])
    /\ \A i, j \in DOMAIN popped : i # j => popped[i] # popped[j]
    /\ Range(popped) \subseteq DOMAIN added
    /\ \A k \in AllKeys(queue) \cup AllKeys(q) :
          /\ \A c \in Range(Bucket(queue, k)) :
                c.id \in DOMAIN added /\ c = added[c.id] /\ k \in Range(c.indexes)
          /\ \A c \in Range(Bucket(q, k)) :
                c.id \in DOMAIN added /\ c = added[c.id] /\ k \in Range(c.indexes)
    /\ \A t, u \in Listeners :
          t # u /\ lloc[t].id # NoId => lloc[t].id # lloc[u].id
    /\ \A t \in Listeners : lloc[t].id \notin DOMAIN added

\* a listener waits at Lock() while the other holds the mutex in the middle
\* of its AddMessage, after a first message was added and popped
C27_Witness ==
    /\ \E t, u \in Listeners : lpc[t] = "lock" /\ lpc[u] = "write" /\ msgMutex = u
    /\ popped = <<1>>
    /\ DOMAIN added = {1}

(***************************************************************************)
(* WaitForMinPeers                                                         *)
(***************************************************************************)
MaxInterval == 4    \* longest start / limit duration explored
MaxWaitSteps == 4   \* peer checks explored in one call

\* peer counts AllPeers reports for the validator's topic (0 also stands for
\* a failed AllPeers call)
PeerCounts == 0..2

\* haveMinPeers
haveMinPeers(nPeers, count) == nPeers >= count

\* the fail-fast test after interval *= 2
StopsAtLimit(i, limit) == i * 2 = limit

\* interval *= 2; interval %= limit; if interval == 0 { interval = start }
NextInterval(i, start, limit) ==
    IF (i * 2) % limit = 0 THEN start ELSE (i * 2) % limit

WaitInit ==
    /\ queue = EmptyMap
    /\ allMessages = EmptyMap
    /\ q = EmptyMap
    /\ msgs = EmptyMap
    /\ nextId = 1
    /\ purged = FALSE
    /\ lastOp = Op("new", NoKey, <<>>, NoRet, NoRet)
    /\ round = 0
    /\ startRound = 0
    /\ pqBucket = <<>>
    /\ storedOffset = NoOffset
    /\ head = defaultSyncOffset
    /\ pc = "idle"
    /\ providedOffset = Nil
    /\ syncOffset = Nil
    /\ cn = <<>>
    /\ syncEndedEvent = NoSyncEnded
    /\ syncWgDone = FALSE
    /\ execQueue = <<>>
    /\ qErrors = {}
    /\ result = "none"
    /\ delivered = {}
    /\ handled = {}
    /\ storedAtCall = NoOffset
    /\ share = <<>>
    /\ obj = <<>>
    /\ shareOut = <<>>
    /\ sizes = <<>>
    /\ db = <<>>
    /\ lock = 0
    /\ tpc = <<>>
    /\ tloc = <<>>
    /\ stale = {}
    /\ storeOp = <<>>
    /\ instances = <<>>
    /\ net = <<>>
    /\ decidedCh = <<>>
    /\ injected = 0
    /\ decidedStore = <<>>
    /\ highestKnown = 0
    /\ startHeight = 0
    /\ peerHeight = <<>>
    /\ usablePeers = {}
    /\ dsPc = "idle"
    /\ dsPeer = 0
    /\ dsMax = 0
    /\ dsFrom = 0
    /\ lastBatch = <<>>
    /\ msgMutex = 0
    /\ lpc = <<>>
    /\ lloc = <<>>
    /\ added = <<>>
    /\ popped = <<>>
    /\ vShare = <<>>
    /\ signedMsg = <<>>
    /\ pksOut = <<>>
    /\ verifyOut = <<>>
    /\ cfgTopics = {}
    /\ psSubscribedTopics = <<>>
    /\ psTopicsLock = <<>>
    /\ ctxDone = FALSE
    /\ listeners = <<>>
    /\ cancels = <<>>
    /\ callers = <<>>
    /\ mainWaiting = <<>>
    /\ mainRunning = 0
    /\ tgPc = <<>>
    /\ validatorShares = {}
    /\ ibftSyncEnabled = FALSE
    /\ eqStop = FALSE
    /\ eqQueue = <<>>
    /\ eqLock = 0
    /\ eqPc = <<>>
    /\ eqLoc = <<>>
    /\ eqNext = 0
    /\ eqAccepted = <<>>
    /\ eqReturned = <<>>
    /\ eqLast = <<>>
    /\ suPc = "idle"
    /\ suPk = 0
    /\ suSyncs = <<>>
    /\ suResult = "none"
    /\ networkReadersQueue = {}
    /\ decidedReadersQueue = {}
    /\ suQueued = FALSE
    /\ qrN = 0
    /\ qrSizes = <<>>
    /\ signersA = {}
    /\ signersB = {}
    /\ wStart \in 1..MaxInterval
    /\ wLimit \in 1..MaxInterval
    /\ wStart <= wLimit
    /\ wStopAtLimit \in BOOLEAN
    /\ wMin \in PeerCounts \ {0}
    /\ interval = wStart
    /\ wpc = "check"
    /\ wN = 0
    /\ wSteps = 0
    /\ wCtxDone = FALSE

\* the peers of the topic are counted
CheckPeers(n) ==
    /\ wpc = "check"
    /\ wSteps < MaxWaitSteps
    /\ wN' = n
    /\ wSteps' = wSteps + 1
    /\ wpc' = IF haveMinPeers(n, wMin) THEN "ok" ELSE "sleep"
    /\ UNCHANGED <<wStart, wLimit, wStopAtLimit, wMin, interval, wCtxDone>>

\* time.Sleep(interval)
Sleep ==
    /\ wpc = "sleep"
    /\ wpc' = "select"
    /\ UNCHANGED <<wStart, wLimit, wStopAtLimit, wMin, interval, wN, wSteps, wCtxDone>>

\* the context of the caller is cancelled
CancelWait ==
    /\ wpc \in {"check", "sleep", "select"}
    /\ ~wCtxDone
    /\ wCtxDone' = TRUE
    /\ UNCHANGED <<wStart, wLimit, wStopAtLimit, wMin, interval, wpc, wN, wSteps>>

\* the select after the sleep: timed out, failed fast, or the next interval
Backoff ==
    /\ wpc = "select"
    /\ IF wCtxDone
       THEN wpc' = "timedout" /\ UNCHANGED interval
       ELSE IF wStopAtLimit /\ StopsAtLimit(interval, wLimit)
            THEN wpc' = "failed" /\ interval' = interval * 2
            ELSE wpc' = "check" /\ interval' = NextInterval(interval, wStart, wLimit)
    /\ UNCHANGED <<wStart, wLimit, wStopAtLimit, wMin, wN, wSteps, wCtxDone>>

WaitNext ==
    \/ \E n \in PeerCounts :
          CheckPeers(n) /\ UNCHANGED <<brokerVars, pqVars, syncVars, shareVars, storeVars, ibftVars, dsyncVars, concVars, verifyVars, topicVars, execVars, evqVars, setupVars, quorumVars>>
    \/ Sleep /\ UNCHANGED <<brokerVars, pqVars, syncVars, shareVars, storeVars, ibftVars, dsyncVars, concVars, verifyVars, topicVars, execVars, evqVars, setupVars, quorumVars>>
    \/ CancelWait /\ UNCHANGED <<brokerVars, pqVars, syncVars, shareVars, storeVars, ibftVars, dsyncVars, concVars, verifyVars, topicVars, execVars, evqVars, setupVars, quorumVars>>
    \/ Backoff /\ UNCHANGED <<brokerVars, pqVars, syncVars, shareVars, storeVars, ibftVars, dsyncVars, concVars, verifyVars, topicVars, execVars, evqVars, setupVars, quorumVars>>

SpecWait == WaitInit /\ [][WaitNext]_vars

(***************************************************************************)
(* WaitForMinPeers properties                                              *)
(***************************************************************************)
RECURSIVE Pow2(_)
Pow2(k) == IF k = 0 THEN 1 ELSE 2 * Pow2(k - 1)

\* C22: the sleep interval after each failed peer check follows
\* interval_t = min(2 * interval_(t-1), limit), starting at start and
\* returning to start after the limit has been reached; the interval
\* therefore is always start times a power of two or limit, never below
\* start and never above limit.
C22_BackoffInterval ==
    wpc = "sleep" =>
        /\ interval >= wStart
        /\ interval <= wLimit
        /\ \/ interval = wLimit
           \/ \E k \in 0..MaxWaitSteps : interval = wStart * Pow2(k)

\* C23: WaitForMinPeers fails fast: with stopAtLimit set and the peer count
\* staying below min, it returns an error as soon as the doubled interval
\* reaches or passes limit (0 < start <= limit); it returns success only
\* after a check that observed at least min peers.
C23_FailFast ==
    /\ [](wpc = "ok" => wN >= wMin)
    /\ [][wpc = "select" /\ wpc' # "select" /\ ~wCtxDone /\ wStopAtLimit
             /\ interval * 2 >= wLimit
          => wpc' = "failed"]_vars

(***************************************************************************)
(* Validator topics of the p2p network                                     *)
(***************************************************************************)
MaxCancels == 2   \* sub.Cancel() calls explored per listener

\* validator public keys (hex) the node subscribes to
TopicPks == {3, 17}

\* goroutines: the listener of a topic, a caller of
\* SubscribeToValidatorNetwork, a caller of getTopic
Task(kind, id) == [kind |-> kind, id |-> id]
NoTask == Task("none", 0)
ListenerTask(pk) == Task("listen", pk)
SubscriberTask == Task("subscribe", 1)
ReaderTask == Task("get", 1)

\* sync.RWMutex: the goroutine holding it for writing, those holding it for
\* reading
RWMutex(w, r) == [w |-> w, r |-> r]

\* Lock() returns when nobody holds the mutex
CanLock(mu) == mu.w = NoTask /\ mu.r = {}

\* RLock() returns when nobody holds it for writing
CanRLock(mu) == mu.w = NoTask

Caller(cpc, pk) == [pc |-> cpc, pk |-> pk]

TopicInit ==
    /\ queue = EmptyMap
    /\ allMessages = EmptyMap
    /\ q = EmptyMap
    /\ msgs = EmptyMap
    /\ nextId = 1
    /\ purged = FALSE
    /\ lastOp = Op("new", NoKey, <<>>, NoRet, NoRet)
    /\ round = 0
    /\ startRound = 0
    /\ pqBucket = <<>>
    /\ storedOffset = NoOffset
    /\ head = defaultSyncOffset
    /\ pc = "idle"
    /\ providedOffset = Nil
    /\ syncOffset = Nil
    /\ cn = <<>>
    /\ syncEndedEvent = NoSyncEnded
    /\ syncWgDone = FALSE
    /\ execQueue = <<>>
    /\ qErrors = {}
    /\ result = "none"
    /\ delivered = {}
    /\ handled = {}
    /\ storedAtCall = NoOffset
    /\ share = <<>>
    /\ obj = <<>>
    /\ shareOut = <<>>
    /\ sizes = <<>>
    /\ db = <<>>
    /\ lock = 0
    /\ tpc = <<>>
    /\ tloc = <<>>
    /\ stale = {}
    /\ storeOp = <<>>
    /\ instances = <<>>
    /\ net = <<>>
    /\ decidedCh = <<>>
    /\ injected = 0
    /\ decidedStore = <<>>
    /\ highestKnown = 0
    /\ startHeight = 0
    /\ peerHeight = <<>>
    /\ usablePeers = {}
    /\ dsPc = "idle"
    /\ dsPeer = 0
    /\ dsMax = 0
    /\ dsFrom = 0
    /\ lastBatch = <<>>
    /\ msgMutex = 0
    /\ lpc = <<>>
    /\ lloc = <<>>
    /\ added = <<>>
    /\ popped = <<>>
    /\ vShare = <<>>
    /\ signedMsg = <<>>
    /\ pksOut = <<>>
    /\ verifyOut = <<>>
    /\ wStart = 0
    /\ wLimit = 0
    /\ wStopAtLimit = FALSE
    /\ wMin = 0
    /\ interval = 0
    /\ wpc = "idle"
    /\ wN = 0
    /\ wSteps = 0
    /\ wCtxDone = FALSE
    /\ mainWaiting = <<>>
    /\ mainRunning = 0
    /\ tgPc = <<>>
    /\ validatorShares = {}
    /\ ibftSyncEnabled = FALSE
    /\ eqStop = FALSE
    /\ eqQueue = <<>>
    /\ eqLock = 0
    /\ eqPc = <<>>
    /\ eqLoc = <<>>
    /\ eqNext = 0
    /\ eqAccepted = <<>>
    /\ eqReturned = <<>>
    /\ eqLast = <<>>
    /\ suPc = "idle"
    /\ suPk = 0
    /\ suSyncs = <<>>
    /\ suResult = "none"
    /\ networkReadersQueue = {}
    /\ decidedReadersQueue = {}
    /\ suQueued = FALSE
    /\ qrN = 0
    /\ qrSizes = <<>>
    /\ signersA = {}
    /\ signersB = {}
    /\ cfgTopics = {}
    /\ psSubscribedTopics = [pk \in TopicPks |-> FALSE]
    /\ psTopicsLock = RWMutex(NoTask, {})
    /\ ctxDone = FALSE
    /\ listeners = [pk \in TopicPks |-> "none"]
    /\ cancels = [pk \in TopicPks |-> 0]
    /\ callers = [t \in {SubscriberTask, ReaderTask} |-> Caller("idle", 0)]

\* SubscribeToValidatorNetwork(pk): n.psTopicsLock.Lock()
SubscribeLock(pk) ==
    /\ callers[SubscriberTask].pc = "idle"
    /\ CanLock(psTopicsLock)
    /\ psTopicsLock' = RWMutex(SubscriberTask, {})
    /\ callers' = [callers EXCEPT ![SubscriberTask] = Caller("locked", pk)]
    /\ UNCHANGED <<cfgTopics, psSubscribedTopics, ctxDone, listeners, cancels>>

\* the body of SubscribeToValidatorNetwork under the lock: join the topic
\* when it is not in the map, subscribe and start the listener when the
\* topic is not marked subscribed; the deferred Unlock()
SubscribeBody(joinFails) ==
    LET pk == callers[SubscriberTask].pk
        joins == pk \notin cfgTopics
    IN /\ callers[SubscriberTask].pc = "locked"
       /\ joinFails => joins
       /\ IF joins /\ joinFails
          THEN UNCHANGED <<cfgTopics, psSubscribedTopics, listeners>>
          ELSE /\ cfgTopics' = cfgTopics \cup {pk}
               /\ IF ~psSubscribedTopics[pk]
                  THEN /\ psSubscribedTopics' = [psSubscribedTopics EXCEPT ![pk] = TRUE]
                       /\ listeners' = [listeners EXCEPT ![pk] = "select"]
                  ELSE UNCHANGED <<psSubscribedTopics, listeners>>
       /\ psTopicsLock' = RWMutex(NoTask, {})
       /\ callers' = [callers EXCEPT ![SubscriberTask] = Caller("idle", 0)]
       /\ UNCHANGED <<ctxDone, cancels>>

\* getTopic(pk): n.psTopicsLock.RLock()
GetTopicRLock(pk) ==
    /\ callers[ReaderTask].pc = "idle"
    /\ CanRLock(psTopicsLock)
    /\ psTopicsLock' = RWMutex(NoTask, psTopicsLock.r \cup {ReaderTask})
    /\ callers' = [callers EXCEPT ![ReaderTask] = Caller("reading", pk)]
    /\ UNCHANGED <<cfgTopics, psSubscribedTopics, ctxDone, listeners, cancels>>

\* getTopic reads the map and returns; the deferred RUnlock()
GetTopicRead ==
    /\ callers[ReaderTask].pc = "reading"
    /\ psTopicsLock' = RWMutex(psTopicsLock.w, psTopicsLock.r \ {ReaderTask})
    /\ callers' = [callers EXCEPT ![ReaderTask] = Caller("idle", 0)]
    /\ UNCHANGED <<cfgTopics, psSubscribedTopics, ctxDone, listeners, cancels>>

\* the root context is cancelled
CancelCtx ==
    /\ ~ctxDone
    /\ ctxDone' = TRUE
    /\ UNCHANGED <<cfgTopics, psSubscribedTopics, psTopicsLock, listeners, cancels, callers>>

\* listen: the select at the top of the loop. With the context done the
\* Done case is taken: sub.Cancel(), then closeTopic; otherwise the default
\* case calls sub.Next
ListenSelect(pk) ==
    /\ listeners[pk] = "select"
    /\ IF ctxDone
       THEN /\ cancels[pk] < MaxCancels
            /\ cancels' = [cancels EXCEPT ![pk] = cancels[pk] + 1]
            /\ listeners' = [listeners EXCEPT ![pk] = "close"]
       ELSE /\ listeners' = [listeners EXCEPT ![pk] = "next"]
            /\ UNCHANGED cancels
    /\ UNCHANGED <<cfgTopics, psSubscribedTopics, psTopicsLock, ctxDone, callers>>

\* sub.Next(n.ctx) returns a message, or an error (always an error once the
\* context is done): on an error listen returns
ListenNext(fails) ==
    \E pk \in TopicPks :
       /\ listeners[pk] = "next"
       /\ ctxDone => fails
       /\ listeners' = [listeners EXCEPT ![pk] = IF fails THEN "returned" ELSE "handle"]
       /\ UNCHANGED <<cfgTopics, psSubscribedTopics, psTopicsLock, ctxDone, cancels, callers>>

\* the message is unmarshalled and propagated; the loop continues
ListenHandle(pk) ==
    /\ listeners[pk] = "handle"
    /\ listeners' = [listeners EXCEPT ![pk] = "select"]
    /\ UNCHANGED <<cfgTopics, psSubscribedTopics, psTopicsLock, ctxDone, cancels, callers>>

\* closeTopic: n.psTopicsLock.RLock()
CloseTopicRLock(pk) ==
    /\ listeners[pk] = "close"
    /\ CanRLock(psTopicsLock)
    /\ psTopicsLock' = RWMutex(NoTask, psTopicsLock.r \cup {ListenerTask(pk)})
    /\ listeners' = [listeners EXCEPT ![pk] = "closing"]
    /\ UNCHANGED <<cfgTopics, psSubscribedTopics, ctxDone, cancels, callers>>

\* closeTopic: the topic is deleted from the map and closed when it is in
\* the map; the deferred RUnlock(); the Done case of listen ends and the
\* loop continues
CloseTopic(pk) ==
    /\ listeners[pk] = "closing"
    /\ cfgTopics' = cfgTopics \ {pk}
    /\ psTopicsLock' = RWMutex(psTopicsLock.w, psTopicsLock.r \ {ListenerTask(pk)})
    /\ listeners' = [listeners EXCEPT ![pk] = "select"]
    /\ UNCHANGED <<psSubscribedTopics, ctxDone, cancels, callers>>

\* after listen returned the goroutine marks the topic as not subscribed
\* under the write lock
MarkNotSubscribed(pk) ==
    /\ listeners[pk] = "returned"
    /\ CanLock(psTopicsLock)
    /\ psSubscribedTopics' = [psSubscribedTopics EXCEPT ![pk] = FALSE]
    /\ listeners' = [listeners EXCEPT ![pk] = "none"]
    /\ UNCHANGED <<cfgTopics, psTopicsLock, ctxDone, cancels, callers>>

TopicNext ==
    \/ \E pk \in TopicPks :
          SubscribeLock(pk) /\ UNCHANGED <<brokerVars, pqVars, syncVars, shareVars, storeVars, ibftVars, dsyncVars, concVars, verifyVars, waitVars, execVars, evqVars, setupVars, quorumVars>>
    \/ \E joinFails \in BOOLEAN :
          SubscribeBody(joinFails) /\ UNCHANGED <<brokerVars, pqVars, syncVars, shareVars, storeVars, ibftVars, dsyncVars, concVars, verifyVars, waitVars, execVars, evqVars, setupVars, quorumVars>>
    \/ \E pk \in TopicPks :
          GetTopicRLock(pk) /\ UNCHANGED <<brokerVars, pqVars, syncVars, shareVars, storeVars, ibftVars, dsyncVars, concVars, verifyVars, waitVars, execVars, evqVars, setupVars, quorumVars>>
    \/ GetTopicRead /\ UNCHANGED <<brokerVars, pqVars, syncVars, shareVars, storeVars, ibftVars, dsyncVars, concVars, verifyVars, waitVars, execVars, evqVars, setupVars, quorumVars>>
    \/ CancelCtx /\ UNCHANGED <<brokerVars, pqVars, syncVars, shareVars, storeVars, ibftVars, dsyncVars, concVars, verifyVars, waitVars, execVars, evqVars, setupVars, quorumVars>>
    \/ \E pk \in TopicPks :
          ListenSelect(pk) /\ UNCHANGED <<brokerVars, pqVars, syncVars, shareVars, storeVars, ibftVars, dsyncVars, concVars, verifyVars, waitVars, execVars, evqVars, setupVars, quorumVars>>
    \/ \E fails \in BOOLEAN :
          ListenNext(fails) /\ UNCHANGED <<brokerVars, pqVars, syncVars, shareVars, storeVars, ibftVars, dsyncVars, concVars, verifyVars, waitVars, execVars, evqVars, setupVars, quorumVars>>
    \/ \E pk \in TopicPks :
          ListenHandle(pk) /\ UNCHANGED <<brokerVars, pqVars, syncVars, shareVars, storeVars, ibftVars, dsyncVars, concVars, verifyVars, waitVars, execVars, evqVars, setupVars, quorumVars>>
    \/ \E pk \in TopicPks :
          CloseTopicRLock(pk) /\ UNCHANGED <<brokerVars, pqVars, syncVars, shareVars, storeVars, ibftVars, dsyncVars, concVars, verifyVars, waitVars, execVars, evqVars, setupVars, quorumVars>>
    \/ \E pk \in TopicPks :
          CloseTopic(pk) /\ UNCHANGED <<brokerVars, pqVars, syncVars, shareVars, storeVars, ibftVars, dsyncVars, concVars, verifyVars, waitVars, execVars, evqVars, setupVars, quorumVars>>
    \/ \E pk \in TopicPks :
          MarkNotSubscribed(pk) /\ UNCHANGED <<brokerVars, pqVars, syncVars, shareVars, storeVars, ibftVars, dsyncVars, concVars, verifyVars, waitVars, execVars, evqVars, setupVars, quorumVars>>

SpecTopics == TopicInit /\ [][TopicNext]_vars

(***************************************************************************)
(* Validator topic properties                                              *)
(***************************************************************************)
\* C24: the per-validator topic map is guarded by a reader-writer lock:
\* every insertion (join) and removal (close) of a topic happens while the
\* write lock is held, so no task reading the map under the read lock
\* (getTopic, watchPeers) runs concurrently with a mutation of the map.
C24_TopicMapUnderWriteLock ==
    [][cfgTopics' # cfgTopics =>
          psTopicsLock.w # NoTask /\ ReaderTask \notin psTopicsLock.r]_vars

\* C25: after the root context is cancelled, every validator-topic listener
\* returns, cancelling its subscription and closing its topic at most once,
\* after which the topic is marked as not subscribed; no listener loops on
\* the cancelled context: a listener that has closed its topic does not go
\* back to the top of its loop.
C25_ListenersReturn ==
    /\ [](\A pk \in TopicPks : cancels[pk] <= 1)
    /\ [][\A pk \in TopicPks :
            listeners[pk] = "closing" => listeners'[pk] \in {"closing", "returned"}]_vars

(***************************************************************************)
(* Share.PubKeysByID and Share.VerifySignedMessage                         *)
(***************************************************************************)
\* the public key of operator i
OperatorKey(i) == 16 + i

\* committees a share is stored with: the well-formed ones, and one whose
\* last operator's key bytes do not deserialize
VerifyCommittees ==
    {Committee(n, FALSE) : n \in 1..MaxCommittee}
    \cup {[i \in 1..n |-> IF i = n THEN Node(i, <<0>>, <<>>) ELSE Committee(n, FALSE)[i]] :
            n \in 2..MaxCommittee}

\* proto.SignedMessage: the signer ids, the operators whose signatures are
\* aggregated in Signature, and whether the signature bytes deserialize
SignedMessage(ids, signedBy, wellFormed) ==
    [SignerIds |-> ids, signedBy |-> signedBy, wellFormed |-> wellFormed]

SignerIdLists ==
    {<<>>} \cup {<<a>> : a \in 1..(MaxCommittee + 1)}
    \cup {<<a, b>> : a, b \in 1..(MaxCommittee + 1)}

SignedMessages ==
    {SignedMessage(ids, sb, wf) :
        ids \in SignerIdLists, sb \in SUBSET {OperatorKey(1), OperatorKey(2)},
        wf \in BOOLEAN}

\* variant: an id that is not in the committee is skipped
RECURSIVE PubKeysByID_skip(_, _)
PubKeysByID_skip(committee, ids) ==
    IF ids = <<>> THEN Returned(<<>>)
    ELSE IF Head(ids) \notin DOMAIN committee THEN PubKeysByID_skip(committee, Tail(ids))
    ELSE LET pk == PublicKeyDeserialize(committee[Head(ids)].Pk)
             rest == PubKeysByID_skip(committee, Tail(ids))
         IN IF pk.err \/ rest.err THEN Failed
            ELSE Returned(<<pk.key>> \o rest.val)

\* Share.PubKeysByID: the keys of the ids in the order given; an error at
\* the first id that is not in the committee or whose key bytes do not
\* deserialize
RECURSIVE PubKeysByID(_, _)
PubKeysByID(committee, ids) ==
    IF ids = <<>> THEN Returned(<<>>)
    ELSE IF Head(ids) \notin DOMAIN committee THEN Failed
    ELSE LET pk == PublicKeyDeserialize(committee[Head(ids)].Pk)
             rest == PubKeysByID(committee, Tail(ids))
         IN IF pk.err \/ rest.err THEN Failed
            ELSE Returned(<<pk.key>> \o rest.val)

\* SignedMessage.VerifyAggregatedSig(pks): an error when the signature bytes
\* do not deserialize; otherwise whether the signature verifies against the
\* sum of pks, which it does when pks are the signers' keys, each once
VerifyAggregatedSig(msg, pks) ==
    IF ~msg.wellFormed THEN Failed
    ELSE Returned(\A k \in Range(pks) \cup msg.signedBy :
                     Cardinality({i \in DOMAIN pks : pks[i] = k})
                        = IF k \in msg.signedBy THEN 1 ELSE 0)

\* Share.VerifySignedMessage
VerifySignedMessage(committee, msg) ==
    LET pks == PubKeysByID(committee, msg.SignerIds) IN
    IF pks.err THEN Failed
    ELSE IF Len(pks.val) = 0 THEN Failed
    ELSE LET res == VerifyAggregatedSig(msg, pks.val) IN
         IF res.err THEN Failed
         ELSE IF ~res.val THEN Failed
         ELSE Returned(TRUE)

VerifyInit ==
    /\ queue = EmptyMap
    /\ allMessages = EmptyMap
    /\ q = EmptyMap
    /\ msgs = EmptyMap
    /\ nextId = 1
    /\ purged = FALSE
    /\ lastOp = Op("new", NoKey, <<>>, NoRet, NoRet)
    /\ round = 0
    /\ startRound = 0
    /\ pqBucket = <<>>
    /\ storedOffset = NoOffset
    /\ head = defaultSyncOffset
    /\ pc = "idle"
    /\ providedOffset = Nil
    /\ syncOffset = Nil
    /\ cn = <<>>
    /\ syncEndedEvent = NoSyncEnded
    /\ syncWgDone = FALSE
    /\ execQueue = <<>>
    /\ qErrors = {}
    /\ result = "none"
    /\ delivered = {}
    /\ handled = {}
    /\ storedAtCall = NoOffset
    /\ share = <<>>
    /\ obj = <<>>
    /\ shareOut = <<>>
    /\ sizes = <<>>
    /\ db = <<>>
    /\ lock = 0
    /\ tpc = <<>>
    /\ tloc = <<>>
    /\ stale = {}
    /\ storeOp = <<>>
    /\ instances = <<>>
    /\ net = <<>>
    /\ decidedCh = <<>>
    /\ injected = 0
    /\ decidedStore = <<>>
    /\ highestKnown = 0
    /\ startHeight = 0
    /\ peerHeight = <<>>
    /\ usablePeers = {}
    /\ dsPc = "idle"
    /\ dsPeer = 0
    /\ dsMax = 0
    /\ dsFrom = 0
    /\ lastBatch = <<>>
    /\ msgMutex = 0
    /\ lpc = <<>>
    /\ lloc = <<>>
    /\ added = <<>>
    /\ popped = <<>>
    /\ wStart = 0
    /\ wLimit = 0
    /\ wStopAtLimit = FALSE
    /\ wMin = 0
    /\ interval = 0
    /\ wpc = "idle"
    /\ wN = 0
    /\ wSteps = 0
    /\ wCtxDone = FALSE
    /\ cfgTopics = {}
    /\ psSubscribedTopics = <<>>
    /\ psTopicsLock = <<>>
    /\ ctxDone = FALSE
    /\ listeners = <<>>
    /\ cancels = <<>>
    /\ callers = <<>>
    /\ mainWaiting = <<>>
    /\ mainRunning = 0
    /\ tgPc = <<>>
    /\ validatorShares = {}
    /\ ibftSyncEnabled = FALSE
    /\ eqStop = FALSE
    /\ eqQueue = <<>>
    /\ eqLock = 0
    /\ eqPc = <<>>
    /\ eqLoc = <<>>
    /\ eqNext = 0
    /\ eqAccepted = <<>>
    /\ eqReturned = <<>>
    /\ eqLast = <<>>
    /\ suPc = "idle"
    /\ suPk = 0
    /\ suSyncs = <<>>
    /\ suResult = "none"
    /\ networkReadersQueue = {}
    /\ decidedReadersQueue = {}
    /\ suQueued = FALSE
    /\ qrN = 0
    /\ qrSizes = <<>>
    /\ signersA = {}
    /\ signersB = {}
    /\ vShare \in VerifyCommittees
    /\ signedMsg \in SignedMessages
    /\ pksOut = NotCalled
    /\ verifyOut = NotCalled

CallPubKeysByID ==
    /\ ~pksOut.called
    /\ pksOut' = PubKeysByID(vShare, signedMsg.SignerIds)
    /\ UNCHANGED <<vShare, signedMsg, verifyOut>>

CallVerifySignedMessage ==
    /\ ~verifyOut.called
    /\ verifyOut' = VerifySignedMessage(vShare, signedMsg)
    /\ UNCHANGED <<vShare, signedMsg, pksOut>>

VerifyNext ==
    \/ CallPubKeysByID /\ UNCHANGED <<brokerVars, pqVars, syncVars, shareVars, storeVars, ibftVars, dsyncVars, concVars, waitVars, topicVars, execVars, evqVars, setupVars, quorumVars>>
    \/ CallVerifySignedMessage /\ UNCHANGED <<brokerVars, pqVars, syncVars, shareVars, storeVars, ibftVars, dsyncVars, concVars, waitVars, topicVars, execVars, evqVars, setupVars, quorumVars>>

SpecVerify == VerifyInit /\ [][VerifyNext]_vars

(***************************************************************************)
(* Signature verification properties                                       *)
(***************************************************************************)
AllInCommittee == \A i \in DOMAIN signedMsg.SignerIds : signedMsg.SignerIds[i] \in DOMAIN vShare

\* the signature is that of the listed signers, each once
SignatureVerifies ==
    /\ signedMsg.wellFormed
    /\ \A i, j \in DOMAIN signedMsg.SignerIds :
          i # j => signedMsg.SignerIds[i] # signedMsg.SignerIds[j]
    /\ {OperatorKey(signedMsg.SignerIds[i]) : i \in DOMAIN signedMsg.SignerIds}
          = signedMsg.signedBy

KeysInOrder ==
    /\ ~pksOut.err
    /\ pksOut.val = [i \in DOMAIN signedMsg.SignerIds |-> OperatorKey(signedMsg.SignerIds[i])]

VerifyOkOnlyIf ==
    verifyOut.called /\ ~verifyOut.err =>
        signedMsg.SignerIds # <<>> /\ AllInCommittee /\ SignatureVerifies

UnknownSignerFails ==
    ~AllInCommittee => /\ pksOut.called => pksOut.err
                       /\ verifyOut.called => verifyOut.err

\* C29 as stated: VerifySignedMessage returns Ok only if the signer-id list
\* is non-empty, every signer id is a member of the share's committee and
\* the aggregated-signature check succeeds; an id that is not in the
\* committee makes PubKeysByID and VerifySignedMessage return an error, and
\* for ids that are all in the committee PubKeysByID returns one key per id
\* in the order given.
C29_VerifySignedMessage ==
    /\ VerifyOkOnlyIf
    /\ UnknownSignerFails
    /\ pksOut.called /\ AllInCommittee => KeysInOrder

\* C29 amended: as stated, but PubKeysByID returns one key per id in the
\* order given for ids that are all in the committee and whose stored key
\* bytes all deserialize; a listed member whose key bytes do not deserialize
\* makes PubKeysByID and VerifySignedMessage return an error.
C29_VerifySignedMessageAmended ==
    LET deserialize ==
          \A i \in DOMAIN signedMsg.SignerIds :
             ~PublicKeyDeserialize(vShare[signedMsg.SignerIds[i]].Pk).err
    IN /\ VerifyOkOnlyIf
       /\ UnknownSignerFails
       /\ pksOut.called /\ AllInCommittee /\ deserialize => KeysInOrder
       /\ AllInCommittee /\ ~deserialize =>
             /\ pksOut.called => pksOut.err
             /\ verifyOut.called => verifyOut.err

\* a message of two committee members verified, and their keys were
\* returned in the order of the ids
C29_Witness ==
    /\ verifyOut.called
    /\ ~verifyOut.err
    /\ pksOut.called
    /\ signedMsg.SignerIds = <<2, 1>>
    /\ pksOut.val = <<OperatorKey(2), OperatorKey(1)>>

(***************************************************************************)
(* Validator setup through the exporter's main execution queue             *)
(***************************************************************************)
ValidatorPks == {3, 17}
Triggerers == {1, 2}

\* syncWhitelist: no public key is listed
syncWhitelist == {}

shouldProcessValidator(pubkey, enabled) == pubkey \in syncWhitelist \/ enabled

\* the id of the setup task: "ibft:setup/<pubkey>"
SetupKey(pk) == [task |-> "ibft:setup", pk |-> pk]
NoSetup == [task |-> "none", pk |-> 0]

\* variant: only the waiting tasks are looked at
QueueDistinct_waiting(waiting, running, key) ==
    IF key \in Range(waiting) THEN waiting ELSE Append(waiting, key)

\* Queue.QueueDistinct: a no-op if a task with the same key is queued or
\* running
QueueDistinct(waiting, running, key) ==
    IF key \in Range(waiting) \/ key = running THEN waiting ELSE Append(waiting, key)

Trigger(tpcv, pk, res) == [pc |-> tpcv, pk |-> pk, res |-> res]

TriggerInit ==
    /\ queue = EmptyMap
    /\ allMessages = EmptyMap
    /\ q = EmptyMap
    /\ msgs = EmptyMap
    /\ nextId = 1
    /\ purged = FALSE
    /\ lastOp = Op("new", NoKey, <<>>, NoRet, NoRet)
    /\ round = 0
    /\ startRound = 0
    /\ pqBucket = <<>>
    /\ storedOffset = NoOffset
    /\ head = defaultSyncOffset
    /\ pc = "idle"
    /\ providedOffset = Nil
    /\ syncOffset = Nil
    /\ cn = <<>>
    /\ syncEndedEvent = NoSyncEnded
    /\ syncWgDone = FALSE
    /\ execQueue = <<>>
    /\ qErrors = {}
    /\ result = "none"
    /\ delivered = {}
    /\ handled = {}
    /\ storedAtCall = NoOffset
    /\ share = <<>>
    /\ obj = <<>>
    /\ shareOut = <<>>
    /\ sizes = <<>>
    /\ db = <<>>
    /\ lock = 0
    /\ tpc = <<>>
    /\ tloc = <<>>
    /\ stale = {}
    /\ storeOp = <<>>
    /\ instances = <<>>
    /\ net = <<>>
    /\ decidedCh = <<>>
    /\ injected = 0
    /\ decidedStore = <<>>
    /\ highestKnown = 0
    /\ startHeight = 0
    /\ peerHeight = <<>>
    /\ usablePeers = {}
    /\ dsPc = "idle"
    /\ dsPeer = 0
    /\ dsMax = 0
    /\ dsFrom = 0
    /\ lastBatch = <<>>
    /\ msgMutex = 0
    /\ lpc = <<>>
    /\ lloc = <<>>
    /\ added = <<>>
    /\ popped = <<>>
    /\ vShare = <<>>
    /\ signedMsg = <<>>
    /\ pksOut = <<>>
    /\ verifyOut = <<>>
    /\ wStart = 0
    /\ wLimit = 0
    /\ wStopAtLimit = FALSE
    /\ wMin = 0
    /\ interval = 0
    /\ wpc = "idle"
    /\ wN = 0
    /\ wSteps = 0
    /\ wCtxDone = FALSE
    /\ cfgTopics = {}
    /\ psSubscribedTopics = <<>>
    /\ psTopicsLock = <<>>
    /\ ctxDone = FALSE
    /\ listeners = <<>>
    /\ cancels = <<>>
    /\ callers = <<>>
    /\ mainWaiting = <<>>
    /\ mainRunning = NoSetup
    /\ tgPc = [t \in Triggerers |-> Trigger("idle", 0, "none")]
    /\ validatorShares \in SUBSET ValidatorPks
    /\ ibftSyncEnabled \in BOOLEAN
    /\ eqStop = FALSE
    /\ eqQueue = <<>>
    /\ eqLock = 0
    /\ eqPc = <<>>
    /\ eqLoc = <<>>
    /\ eqNext = 0
    /\ eqAccepted = <<>>
    /\ eqReturned = <<>>
    /\ eqLast = <<>>
    /\ suPc = "idle"
    /\ suPk = 0
    /\ suSyncs = <<>>
    /\ suResult = "none"
    /\ networkReadersQueue = {}
    /\ decidedReadersQueue = {}
    /\ suQueued = FALSE
    /\ qrN = 0
    /\ qrSizes = <<>>
    /\ signersA = {}
    /\ signersB = {}

\* triggerValidator(pk) up to the QueueDistinct call: the whitelist and the
\* share lookup
triggerValidator(t, pk) ==
    /\ tgPc[t].pc = "idle"
    /\ tgPc' = [tgPc EXCEPT ![t] =
                  IF ~shouldProcessValidator(pk, ibftSyncEnabled) THEN Trigger("idle", pk, "skipped")
                  ELSE IF pk \notin validatorShares THEN Trigger("idle", pk, "error")
                  ELSE Trigger("queue", pk, "none")]
    /\ UNCHANGED <<mainWaiting, mainRunning, validatorShares, ibftSyncEnabled>>

\* exp.mainQueue.QueueDistinct(setup, "ibft:setup/<pubkey>")
QueueSetup(t) ==
    /\ tgPc[t].pc = "queue"
    /\ mainWaiting' = QueueDistinct(mainWaiting, mainRunning, SetupKey(tgPc[t].pk))
    /\ tgPc' = [tgPc EXCEPT ![t] =
                  Trigger("idle", tgPc[t].pk,
                          IF mainWaiting' = mainWaiting THEN "duplicate" ELSE "queued")]
    /\ UNCHANGED <<mainRunning, validatorShares, ibftSyncEnabled>>

\* the worker of the queue takes the next task
StartSetup ==
    /\ mainRunning = NoSetup
    /\ mainWaiting # <<>>
    /\ mainRunning' = Head(mainWaiting)
    /\ mainWaiting' = Tail(mainWaiting)
    /\ UNCHANGED <<tgPc, validatorShares, ibftSyncEnabled>>

\* the setup task returns
FinishSetup ==
    /\ mainRunning # NoSetup
    /\ mainRunning' = NoSetup
    /\ UNCHANGED <<mainWaiting, tgPc, validatorShares, ibftSyncEnabled>>

TriggerNext ==
    \/ \E t \in Triggerers, pk \in ValidatorPks :
          triggerValidator(t, pk) /\ UNCHANGED <<brokerVars, pqVars, syncVars, shareVars, storeVars, ibftVars, dsyncVars, concVars, verifyVars, waitVars, topicVars, evqVars, setupVars, quorumVars>>
    \/ \E t \in Triggerers :
          QueueSetup(t) /\ UNCHANGED <<brokerVars, pqVars, syncVars, shareVars, storeVars, ibftVars, dsyncVars, concVars, verifyVars, waitVars, topicVars, evqVars, setupVars, quorumVars>>
    \/ StartSetup /\ UNCHANGED <<brokerVars, pqVars, syncVars, shareVars, storeVars, ibftVars, dsyncVars, concVars, verifyVars, waitVars, topicVars, evqVars, setupVars, quorumVars>>
    \/ FinishSetup /\ UNCHANGED <<brokerVars, pqVars, syncVars, shareVars, storeVars, ibftVars, dsyncVars, concVars, verifyVars, waitVars, topicVars, evqVars, setupVars, quorumVars>>

SpecTrigger == TriggerInit /\ [][TriggerNext]_vars

(***************************************************************************)
(* Validator setup properties                                              *)
(***************************************************************************)
\* the setup tasks of a validator that are queued or running
SetupTasks(waiting, running, pk) ==
    Cardinality({i \in DOMAIN waiting : waiting[i] = SetupKey(pk)})
        + (IF running = SetupKey(pk) THEN 1 ELSE 0)

\* C21: validator setup is deduplicated by public key: under any
\* interleaving of triggerValidator calls, at most one setup task for a
\* given validator public key is queued or running on the main execution
\* queue at any time, while setups for different validators are all
\* accepted.
C21_SetupDeduplicated ==
    /\ [](\A pk \in ValidatorPks : SetupTasks(mainWaiting, mainRunning, pk) <= 1)
    /\ [][\A t \in Triggerers :
            tgPc[t].pc = "queue" /\ tgPc'[t].pc = "idle"
               /\ SetupTasks(mainWaiting, mainRunning, tgPc[t].pk) = 0
            => /\ SetupTasks(mainWaiting', mainRunning', tgPc[t].pk) = 1
               /\ tgPc'[t].res = "queued"]_vars

\* the setup of one validator runs, the setup of the other one was accepted
\* and waits, and a second trigger of the running one was a no-op
C21_Witness ==
    /\ mainRunning = SetupKey(3)
    /\ mainWaiting = <<SetupKey(17)>>
    /\ \E t \in Triggerers : tgPc[t] = Trigger("idle", 3, "duplicate")

(***************************************************************************)
(* Event queue (eventqueue.Queue) shared by concurrent goroutines          *)
(***************************************************************************)
MaxEvents == 3   \* events passed to Add

EqGoroutines == {1, 2}

\* Pop returns nil
NilEvent == 0

\* variant: Lock() returns while another goroutine holds the mutex
EqMutexFree_unlocked(mu) == TRUE

\* q.lock.Lock() returns when no goroutine holds the mutex
EqMutexFree(mu) == mu = 0

\* variant: Add does not look at q.stop
AddRefused_never(stop) == FALSE

\* Add: if q.stop { return false }
AddRefused(stop) == stop

\* a call in progress: the method, the event (Add: the argument, Pop: ret)
\* and the q.queue it read
EqCall(op, ev, readQ) == [op |-> op, ev |-> ev, readQ |-> readQ]

NoEqCall == EqCall("-", NilEvent, <<>>)

\* a call that returned: the method, the event (Add: the argument, Pop: the
\* result), the result of Add, and q.queue and q.stop when it returned
EqDone(op, ev, ok, before, stop) ==
    [op |-> op, ev |-> ev, ok |-> ok, before |-> before, stop |-> stop]

\* New()
EventQueueInit ==
    /\ queue = EmptyMap
    /\ allMessages = EmptyMap
    /\ q = EmptyMap
    /\ msgs = EmptyMap
    /\ nextId = 1
    /\ purged = FALSE
    /\ lastOp = Op("new", NoKey, <<>>, NoRet, NoRet)
    /\ round = 0
    /\ startRound = 0
    /\ pqBucket = <<>>
    /\ storedOffset = NoOffset
    /\ head = defaultSyncOffset
    /\ pc = "idle"
    /\ providedOffset = Nil
    /\ syncOffset = Nil
    /\ cn = <<>>
    /\ syncEndedEvent = NoSyncEnded
    /\ syncWgDone = FALSE
    /\ execQueue = <<>>
    /\ qErrors = {}
    /\ result = "none"
    /\ delivered = {}
    /\ handled = {}
    /\ storedAtCall = NoOffset
    /\ share = <<>>
    /\ obj = <<>>
    /\ shareOut = <<>>
    /\ sizes = <<>>
    /\ db = <<>>
    /\ lock = 0
    /\ tpc = <<>>
    /\ tloc = <<>>
    /\ stale = {}
    /\ storeOp = <<>>
    /\ instances = <<>>
    /\ net = <<>>
    /\ decidedCh = <<>>
    /\ injected = 0
    /\ decidedStore = <<>>
    /\ highestKnown = 0
    /\ startHeight = 0
    /\ peerHeight = <<>>
    /\ usablePeers = {}
    /\ dsPc = "idle"
    /\ dsPeer = 0
    /\ dsMax = 0
    /\ dsFrom = 0
    /\ lastBatch = <<>>
    /\ msgMutex = 0
    /\ lpc = <<>>
    /\ lloc = <<>>
    /\ added = <<>>
    /\ popped = <<>>
    /\ vShare = <<>>
    /\ signedMsg = <<>>
    /\ pksOut = <<>>
    /\ verifyOut = <<>>
    /\ wStart = 0
    /\ wLimit = 0
    /\ wStopAtLimit = FALSE
    /\ wMin = 0
    /\ interval = 0
    /\ wpc = "idle"
    /\ wN = 0
    /\ wSteps = 0
    /\ wCtxDone = FALSE
    /\ cfgTopics = {}
    /\ psSubscribedTopics = <<>>
    /\ psTopicsLock = <<>>
    /\ ctxDone = FALSE
    /\ listeners = <<>>
    /\ cancels = <<>>
    /\ callers = <<>>
    /\ mainWaiting = <<>>
    /\ mainRunning = 0
    /\ tgPc = <<>>
    /\ validatorShares = {}
    /\ ibftSyncEnabled = FALSE
    /\ suPc = "idle"
    /\ suPk = 0
    /\ suSyncs = <<>>
    /\ suResult = "none"
    /\ networkReadersQueue = {}
    /\ decidedReadersQueue = {}
    /\ suQueued = FALSE
    /\ qrN = 0
    /\ qrSizes = <<>>
    /\ signersA = {}
    /\ signersB = {}
    /\ eqStop = FALSE
    /\ eqQueue = <<>>
    /\ eqLock = 0
    /\ eqPc = [t \in EqGoroutines |-> "idle"]
    /\ eqLoc = [t \in EqGoroutines |-> NoEqCall]
    /\ eqNext = 1
    /\ eqAccepted = <<>>
    /\ eqReturned = <<>>
    /\ eqLast = EqDone("New", NilEvent, FALSE, <<>>, FALSE)

\* the call of goroutine t returns: the deferred Unlock() runs
EqReturn(t, ev, ok) ==
    /\ eqLock' = 0
    /\ eqPc' = [eqPc EXCEPT ![t] = "idle"]
    /\ eqLoc' = [eqLoc EXCEPT ![t] = NoEqCall]
    /\ eqLast' = EqDone(eqLoc[t].op, ev, ok, eqQueue, eqStop)

\* a goroutine calls Add(e) with a fresh event and waits at Lock()
CallAdd(t) ==
    /\ eqPc[t] = "idle"
    /\ eqNext <= MaxEvents
    /\ eqPc' = [eqPc EXCEPT ![t] = "lock"]
    /\ eqLoc' = [eqLoc EXCEPT ![t] = EqCall("Add", eqNext, <<>>)]
    /\ eqNext' = eqNext + 1
    /\ UNCHANGED <<eqStop, eqQueue, eqLock, eqAccepted, eqReturned, eqLast>>

\* a goroutine calls Pop() or ClearAndStop() and waits at Lock()
CallOther(t, op) ==
    /\ eqPc[t] = "idle"
    /\ eqPc' = [eqPc EXCEPT ![t] = "lock"]
    /\ eqLoc' = [eqLoc EXCEPT ![t] = EqCall(op, NilEvent, <<>>)]
    /\ UNCHANGED <<eqStop, eqQueue, eqLock, eqNext, eqAccepted, eqReturned, eqLast>>

\* q.lock.Lock() returns
EqLock(t) ==
    /\ eqPc[t] = "lock"
    /\ EqMutexFree(eqLock)
    /\ eqLock' = t
    /\ eqPc' = [eqPc EXCEPT ![t] = "body"]
    /\ UNCHANGED <<eqStop, eqQueue, eqLoc, eqNext, eqAccepted, eqReturned, eqLast>>

\* Add: the stop test, and q.queue is read for the append
EqAddBody(t) ==
    /\ eqPc[t] = "body"
    /\ eqLoc[t].op = "Add"
    /\ IF AddRefused(eqStop)
       THEN /\ EqReturn(t, eqLoc[t].ev, FALSE)
            /\ UNCHANGED <<eqStop, eqQueue, eqNext, eqAccepted, eqReturned>>
       ELSE /\ eqPc' = [eqPc EXCEPT ![t] = "write"]
            /\ eqLoc' = [eqLoc EXCEPT ![t] = EqCall("Add", eqLoc[t].ev, eqQueue)]
            /\ UNCHANGED <<eqStop, eqQueue, eqLock, eqNext, eqAccepted, eqReturned, eqLast>>

\* Add: q.queue = append(q.queue, e); return true
EqAddWrite(t) ==
    /\ eqPc[t] = "write"
    /\ eqLoc[t].op = "Add"
    /\ eqQueue' = Append(eqLoc[t].readQ, eqLoc[t].ev)
    /\ eqAccepted' = Append(eqAccepted, eqLoc[t].ev)
    /\ EqReturn(t, eqLoc[t].ev, TRUE)
    /\ UNCHANGED <<eqStop, eqNext, eqReturned>>

\* Pop: the stop test, the length test, and ret := q.queue[0]
EqPopBody(t) ==
    /\ eqPc[t] = "body"
    /\ eqLoc[t].op = "Pop"
    /\ IF eqStop \/ Len(eqQueue) = 0
       THEN /\ EqReturn(t, NilEvent, FALSE)
            /\ UNCHANGED <<eqStop, eqQueue, eqNext, eqAccepted, eqReturned>>
       ELSE /\ eqPc' = [eqPc EXCEPT ![t] = "write"]
            /\ eqLoc' = [eqLoc EXCEPT ![t] = EqCall("Pop", eqQueue[1], eqQueue)]
            /\ UNCHANGED <<eqStop, eqQueue, eqLock, eqNext, eqAccepted, eqReturned, eqLast>>

\* Pop: q.queue = q.queue[1:len(q.queue)]; return ret
EqPopWrite(t) ==
    /\ eqPc[t] = "write"
    /\ eqLoc[t].op = "Pop"
    /\ eqQueue' = Tail(eqLoc[t].readQ)
    /\ eqReturned' = Append(eqReturned, eqLoc[t].ev)
    /\ EqReturn(t, eqLoc[t].ev, FALSE)
    /\ UNCHANGED <<eqStop, eqNext, eqAccepted>>

\* ClearAndStop: q.stop = true
EqStopBody(t) ==
    /\ eqPc[t] = "body"
    /\ eqLoc[t].op = "ClearAndStop"
    /\ eqStop' = TRUE
    /\ eqPc' = [eqPc EXCEPT ![t] = "write"]
    /\ UNCHANGED <<eqQueue, eqLock, eqLoc, eqNext, eqAccepted, eqReturned, eqLast>>

\* ClearAndStop: q.queue = make([]Event, 0)
EqStopWrite(t) ==
    /\ eqPc[t] = "write"
    /\ eqLoc[t].op = "ClearAndStop"
    /\ eqQueue' = <<>>
    /\ EqReturn(t, NilEvent, FALSE)
    /\ UNCHANGED <<eqStop, eqNext, eqAccepted, eqReturned>>

EventQueueNext ==
    \/ \E t \in EqGoroutines :
          CallAdd(t) /\ UNCHANGED <<brokerVars, pqVars, syncVars, shareVars, storeVars, ibftVars, dsyncVars, concVars, verifyVars, waitVars, topicVars, execVars, setupVars, quorumVars>>
    \/ \E t \in EqGoroutines, op \in {"Pop", "ClearAndStop"} :
          CallOther(t, op) /\ UNCHANGED <<brokerVars, pqVars, syncVars, shareVars, storeVars, ibftVars, dsyncVars, concVars, verifyVars, waitVars, topicVars, execVars, setupVars, quorumVars>>
    \/ \E t \in EqGoroutines :
          EqLock(t) /\ UNCHANGED <<brokerVars, pqVars, syncVars, shareVars, storeVars, ibftVars, dsyncVars, concVars, verifyVars, waitVars, topicVars, execVars, setupVars, quorumVars>>
    \/ \E t \in EqGoroutines :
          EqAddBody(t) /\ UNCHANGED <<brokerVars, pqVars, syncVars, shareVars, storeVars, ibftVars, dsyncVars, concVars, verifyVars, waitVars, topicVars, execVars, setupVars, quorumVars>>
    \/ \E t \in EqGoroutines :
          EqAddWrite(t) /\ UNCHANGED <<brokerVars, pqVars, syncVars, shareVars, storeVars, ibftVars, dsyncVars, concVars, verifyVars, waitVars, topicVars, execVars, setupVars, quorumVars>>
    \/ \E t \in EqGoroutines :
          EqPopBody(t) /\ UNCHANGED <<brokerVars, pqVars, syncVars, shareVars, storeVars, ibftVars, dsyncVars, concVars, verifyVars, waitVars, topicVars, execVars, setupVars, quorumVars>>
    \/ \E t \in EqGoroutines :
          EqPopWrite(t) /\ UNCHANGED <<brokerVars, pqVars, syncVars, shareVars, storeVars, ibftVars, dsyncVars, concVars, verifyVars, waitVars, topicVars, execVars, setupVars, quorumVars>>
    \/ \E t \in EqGoroutines :
          EqStopBody(t) /\ UNCHANGED <<brokerVars, pqVars, syncVars, shareVars, storeVars, ibftVars, dsyncVars, concVars, verifyVars, waitVars, topicVars, execVars, setupVars, quorumVars>>
    \/ \E t \in EqGoroutines :
          EqStopWrite(t) /\ UNCHANGED <<brokerVars, pqVars, syncVars, shareVars, storeVars, ibftVars, dsyncVars, concVars, verifyVars, waitVars, topicVars, execVars, setupVars, quorumVars>>

SpecEventQueue == EventQueueInit /\ [][EventQueueNext]_vars

(***************************************************************************)
(* Event queue properties                                                  *)
(***************************************************************************)
IsPrefix(s, t) == Len(s) <= Len(t) /\ \A i \in DOMAIN s : s[i] = t[i]

\* C32: the event queue is a thread-safe FIFO: under any interleaving of
\* concurrent Add and Pop calls while the queue is not stopped, every event
\* whose Add returned true is returned by at most one Pop, events are
\* returned in the order their Adds took effect (and none is lost), and Pop
\* returns nil exactly when the queue is empty.
C32_ThreadSafeFifo ==
    /\ \A i, j \in DOMAIN eqReturned : i # j => eqReturned[i] # eqReturned[j]
    /\ IsPrefix(eqReturned, eqAccepted)
    /\ (~eqStop /\ eqLock = 0) => eqAccepted = eqReturned \o eqQueue
    /\ (eqLast.op = "Pop" /\ ~eqLast.stop) =>
          /\ eqLast.ev = NilEvent <=> eqLast.before = <<>>
          /\ eqLast.ev # NilEvent => eqLast.ev = Head(eqLast.before)

\* two events were popped in order, the third is queued, and a goroutine
\* waits for the mutex another one holds
C32_Witness ==
    /\ ~eqStop
    /\ eqAccepted = <<1, 2, 3>>
    /\ eqReturned = <<1, 2>>
    /\ \E t \in EqGoroutines : eqPc[t] = "lock" /\ eqLock \notin {0, t}

\* the step returns from a call of the method
Returns(op) == eqLast' # eqLast /\ eqLast'.op = op

\* C33: ClearAndStop is a permanent latch: once the queue is stopped it
\* stays stopped, every Add returns false and adds nothing, every Pop
\* returns nil, no event queued before the stop is ever returned, and the
\* queue is empty whenever no ClearAndStop call is running.
C33_StopLatch ==
    /\ [](eqStop /\ eqLock = 0 => eqQueue = <<>>)
    /\ [][eqStop =>
            /\ eqStop'
            /\ eqAccepted' = eqAccepted
            /\ eqReturned' = eqReturned
            /\ Returns("Add") => ~eqLast'.ok
            /\ Returns("Pop") => eqLast'.ev = NilEvent]_vars

\* two events were accepted, one was popped, the queue was stopped with the
\* other one still queued, and a later Add returned false
C33_Witness ==
    /\ eqStop
    /\ eqQueue = <<>>
    /\ eqAccepted = <<1, 2>>
    /\ eqReturned = <<1>>
    /\ eqLast = EqDone("Add", 3, FALSE, <<>>, TRUE)

(***************************************************************************)
(* Registry synchronizer with a client that delivers SyncEnded for every   *)
(* replay request and handlers that do not fail                            *)
(***************************************************************************)
\* the steps SyncEth1Events, its listener goroutine and its execution queue
\* take
SyncRun ==
    \/ \E rf, sf \in BOOLEAN : Enter(rf, sf) /\ UNCHANGED <<brokerVars, pqVars, laterVars>>
    \/ \E logs \in ClientLogs(syncOffset, head) : \E parsed \in SUBSET DOMAIN logs :
          ClientSync(logs, parsed) /\ UNCHANGED <<brokerVars, pqVars, laterVars>>
    \/ Listen /\ UNCHANGED <<brokerVars, pqVars, laterVars>>
    \/ RunTask(FALSE) /\ UNCHANGED <<brokerVars, pqVars, laterVars>>
    \/ WaitAndCheckErrors /\ UNCHANGED <<brokerVars, pqVars, laterVars>>
    \/ \E cf, sf \in BOOLEAN : CurrentBlock(cf, sf) /\ UNCHANGED <<brokerVars, pqVars, laterVars>>

SyncLiveNext ==
    \/ \E p \in Blocks \cup {Nil} : StartEth1(p) /\ UNCHANGED <<brokerVars, pqVars, laterVars>>
    \/ SyncRun
    \/ NewBlock /\ UNCHANGED <<brokerVars, pqVars, laterVars>>

\* the goroutines of a running SyncEth1Events are scheduled: a step of the
\* call that stays possible is eventually taken
SpecSyncLive == SyncInit /\ [][SyncLiveNext]_vars /\ WF_vars(SyncRun)

\* C34: SyncEth1Events terminates: when the client delivers SyncEnded for
\* every replay request, no handler fails and the head stops advancing
\* (the chain of the model is finite), every call of SyncEth1Events returns.
C34_SyncTerminates == (pc = "enter") ~> (pc = "done")

(***************************************************************************)
(* Registry synchronizer: the current head is not available                *)
(***************************************************************************)
\* what the offset-persist rule stores for the finished pass
PersistRule(saved) ==
    LET save == upgradeSyncOffset(syncOffset, syncEndedEvent) IN
    IF save = Nil
    THEN result' = "ok" /\ storedOffset' = storedOffset
    ELSE IF saved
         THEN result' = "ok" /\ storedOffset' = save
         ELSE result' = "saveError" /\ storedOffset' = storedOffset

\* C35: when client.CurrentBlock() fails after a replay pass,
\* SyncEth1Events does not re-enter: it applies the offset-persist rule of
\* the finished pass and returns, with no error other than a failing
\* SaveSyncOffset.
C35_HeadUnavailable ==
    [][\A sf \in BOOLEAN :
          CurrentBlock(TRUE, sf) => pc' = "done" /\ PersistRule(~sf)]_vars

\* the call started with nothing persisted and returned without error after
\* persisting the last block of its pass, which only the pass whose
\* CurrentBlock() failed does
C35_Witness ==
    /\ pc = "done"
    /\ result = "ok"
    /\ storedAtCall = NoOffset
    /\ storedOffset # NoOffset
    /\ storedOffset = syncOffset
    /\ storedOffset \in delivered

(***************************************************************************)
(* Registry synchronizer: the starting offset                              *)
(***************************************************************************)
\* hexadecimal 4e706f
Hex4e706f == 4 * 1048576 + 14 * 65536 + 7 * 4096 + 0 * 256 + 6 * 16 + 15

\* the offset the priority rule picks; a failing read counts as nothing
\* stored
StartingOffset(stored, readFails, provided) ==
    IF stored # NoOffset /\ ~readFails THEN stored
    ELSE IF provided # Nil THEN provided
    ELSE Hex4e706f

\* C36: the replay starting offset is chosen by priority: the stored offset
\* when one is stored, otherwise the provided offset when it is not nil,
\* otherwise the default genesis block 0x4e706f; a provided offset never
\* overrides a stored one, and a storage read error is treated as no stored
\* offset.
C36_OffsetPriority ==
    [][\A rf \in BOOLEAN :
          Enter(FALSE, rf) =>
              syncOffset' = StartingOffset(storedOffset, rf, providedOffset)]_vars

\* an offset is stored, another one is provided, and the call replays from
\* the stored one
C36_Witness ==
    /\ pc = "sync"
    /\ storedOffset # NoOffset
    /\ providedOffset # Nil
    /\ providedOffset # storedOffset
    /\ syncOffset = storedOffset

(***************************************************************************)
(* Validator topics: one listener per topic                                *)
(***************************************************************************)
\* the step is the return of a SubscribeToValidatorNetwork(pk) call
SubscribeReturns(pk) ==
    /\ callers[SubscriberTask] = Caller("locked", pk)
    /\ callers'[SubscriberTask].pc = "idle"

\* the listen call of the topic's goroutine is running
Listening(pk) == listeners[pk] \in {"select", "next", "handle", "close", "closing"}

\* a listener is active at most once per topic: the topic is marked
\* subscribed while its listener runs, and a call starts a listener only
\* when none runs
AtMostOneListener ==
    /\ [](\A pk \in TopicPks : Listening(pk) => psSubscribedTopics[pk])
    /\ [][\A pk \in TopicPks :
            (SubscribeReturns(pk) /\ listeners'[pk] # listeners[pk])
                => ~Listening(pk) /\ listeners'[pk] = "select"]_vars

\* C37: under any interleaving of SubscribeToValidatorNetwork calls for the
\* same validator at most one listener is active for the validator's topic,
\* the topic is marked subscribed while its listener runs, and once the
\* listener has exited a later call that returns no error starts a new one.
C37_OneListenerPerTopic ==
    /\ AtMostOneListener
    /\ [][\A pk \in TopicPks :
            (SubscribeReturns(pk) /\ pk \in cfgTopics' /\ ~Listening(pk))
                => listeners'[pk] = "select"]_vars

(***************************************************************************)
(* exporter.setup: network reader, decided sync, decided reader            *)
(***************************************************************************)
\* tasks.Retry(fn, 3)
RetryAttempts == 3

\* variant: the error of the retried Sync is not looked at
SyncSucceeded_always(syncs) == TRUE

\* the last decidedReader.Sync() call returned nil
SyncSucceeded(syncs) == syncs # <<>> /\ syncs[Len(syncs)]

\* tasks.Retry calls the function again: it has not returned nil and
\* attempts are left
RetryPending(syncs, attempts) == ~SyncSucceeded(syncs) /\ Len(syncs) < attempts

SetupInit ==
    /\ queue = EmptyMap
    /\ allMessages = EmptyMap
    /\ q = EmptyMap
    /\ msgs = EmptyMap
    /\ nextId = 1
    /\ purged = FALSE
    /\ lastOp = Op("new", NoKey, <<>>, NoRet, NoRet)
    /\ round = 0
    /\ startRound = 0
    /\ pqBucket = <<>>
    /\ storedOffset = NoOffset
    /\ head = defaultSyncOffset
    /\ pc = "idle"
    /\ providedOffset = Nil
    /\ syncOffset = Nil
    /\ cn = <<>>
    /\ syncEndedEvent = NoSyncEnded
    /\ syncWgDone = FALSE
    /\ execQueue = <<>>
    /\ qErrors = {}
    /\ result = "none"
    /\ delivered = {}
    /\ handled = {}
    /\ storedAtCall = NoOffset
    /\ share = <<>>
    /\ obj = <<>>
    /\ shareOut = <<>>
    /\ sizes = <<>>
    /\ db = <<>>
    /\ lock = 0
    /\ tpc = <<>>
    /\ tloc = <<>>
    /\ stale = {}
    /\ storeOp = <<>>
    /\ instances = <<>>
    /\ net = <<>>
    /\ decidedCh = <<>>
    /\ injected = 0
    /\ decidedStore = <<>>
    /\ highestKnown = 0
    /\ startHeight = 0
    /\ peerHeight = <<>>
    /\ usablePeers = {}
    /\ dsPc = "idle"
    /\ dsPeer = 0
    /\ dsMax = 0
    /\ dsFrom = 0
    /\ lastBatch = <<>>
    /\ msgMutex = 0
    /\ lpc = <<>>
    /\ lloc = <<>>
    /\ added = <<>>
    /\ popped = <<>>
    /\ vShare = <<>>
    /\ signedMsg = <<>>
    /\ pksOut = <<>>
    /\ verifyOut = <<>>
    /\ wStart = 0
    /\ wLimit = 0
    /\ wStopAtLimit = FALSE
    /\ wMin = 0
    /\ interval = 0
    /\ wpc = "idle"
    /\ wN = 0
    /\ wSteps = 0
    /\ wCtxDone = FALSE
    /\ cfgTopics = {}
    /\ psSubscribedTopics = <<>>
    /\ psTopicsLock = <<>>
    /\ ctxDone = FALSE
    /\ listeners = <<>>
    /\ cancels = <<>>
    /\ callers = <<>>
    /\ mainWaiting = <<>>
    /\ mainRunning = 0
    /\ tgPc = <<>>
    /\ validatorShares = {}
    /\ ibftSyncEnabled = FALSE
    /\ eqStop = FALSE
    /\ eqQueue = <<>>
    /\ eqLock = 0
    /\ eqPc = <<>>
    /\ eqLoc = <<>>
    /\ eqNext = 0
    /\ eqAccepted = <<>>
    /\ eqReturned = <<>>
    /\ eqLast = <<>>
    /\ suPc = "idle"
    /\ suPk = 0
    /\ suSyncs = <<>>
    /\ suResult = "none"
    /\ networkReadersQueue = {}
    /\ decidedReadersQueue = {}
    /\ suQueued = FALSE
    /\ qrN = 0
    /\ qrSizes = <<>>
    /\ signersA = {}
    /\ signersB = {}

\* setup(validatorShare) up to the Retry call: the readers are created and
\* networkReader.Start is queued under the public key
SetupStart(pk) ==
    /\ suPc \in {"idle", "done"}
    /\ suPc' = "sync"
    /\ suPk' = pk
    /\ suSyncs' = <<>>
    /\ suResult' = "none"
    /\ suQueued' = FALSE
    /\ networkReadersQueue' = networkReadersQueue \cup {pk}
    /\ UNCHANGED decidedReadersQueue

\* one attempt of the Retry: decidedReader.Sync() returns nil or an error
SetupSync(ok) ==
    /\ suPc = "sync"
    /\ RetryPending(suSyncs, RetryAttempts)
    /\ suSyncs' = Append(suSyncs, ok)
    /\ UNCHANGED <<suPc, suPk, suResult, networkReadersQueue, decidedReadersQueue, suQueued>>

\* Retry has returned: on an error setup returns it, otherwise
\* decidedReader.Start is queued under the public key and setup returns nil
SetupReturn ==
    /\ suPc = "sync"
    /\ ~RetryPending(suSyncs, RetryAttempts)
    /\ suPc' = "done"
    /\ IF SyncSucceeded(suSyncs)
       THEN /\ decidedReadersQueue' = decidedReadersQueue \cup {suPk}
            /\ suQueued' = TRUE
            /\ suResult' = "ok"
       ELSE /\ suResult' = "error"
            /\ UNCHANGED <<decidedReadersQueue, suQueued>>
    /\ UNCHANGED <<suPk, suSyncs, networkReadersQueue>>

SetupNext ==
    \/ \E pk \in ValidatorPks :
          SetupStart(pk) /\ UNCHANGED <<brokerVars, pqVars, syncVars, shareVars, storeVars, ibftVars, dsyncVars, concVars, verifyVars, waitVars, topicVars, execVars, evqVars, quorumVars>>
    \/ \E ok \in BOOLEAN :
          SetupSync(ok) /\ UNCHANGED <<brokerVars, pqVars, syncVars, shareVars, storeVars, ibftVars, dsyncVars, concVars, verifyVars, waitVars, topicVars, execVars, evqVars, quorumVars>>
    \/ SetupReturn /\ UNCHANGED <<brokerVars, pqVars, syncVars, shareVars, storeVars, ibftVars, dsyncVars, concVars, verifyVars, waitVars, topicVars, execVars, evqVars, quorumVars>>

SpecSetup == SetupInit /\ [][SetupNext]_vars

(***************************************************************************)
(* exporter.setup properties                                               *)
(***************************************************************************)
SomeSyncOk(syncs) == \E i \in DOMAIN syncs : syncs[i]

\* C38: in validator setup the decided reader is started only after the
\* decided-history sync has succeeded: decidedReader.Start is queued only
\* if Sync returned nil within its 3 attempts, and when all 3 attempts fail
\* setup returns the error and that setup never queues it.
C38_DecidedReaderAfterSync ==
    /\ [](/\ Len(suSyncs) <= 3
          /\ suQueued => SomeSyncOk(suSyncs)
          /\ (suPc = "done" /\ ~SomeSyncOk(suSyncs)) =>
                Len(suSyncs) = 3 /\ suResult = "error" /\ ~suQueued
          /\ (suPc = "done" /\ SomeSyncOk(suSyncs)) => suResult = "ok" /\ suQueued)
    /\ [][decidedReadersQueue' # decidedReadersQueue =>
            /\ SomeSyncOk(suSyncs)
            /\ decidedReadersQueue' = decidedReadersQueue \cup {suPk}]_vars

\* the sync of validator 17 failed twice and succeeded at the third attempt,
\* and its decided reader was queued; validator 3 was set up before and its
\* sync did not succeed
C38_Witness ==
    /\ suPc = "done"
    /\ suPk = 17
    /\ suSyncs = <<FALSE, FALSE, TRUE>>
    /\ suQueued
    /\ decidedReadersQueue = {17}
    /\ networkReadersQueue = {3, 17}

(***************************************************************************)
(* Share store: metadata of a validator that is not stored                 *)
(***************************************************************************)
\* the step is UpdateValidatorMetadata(pk, m) by goroutine t, with the
\* database answering, for the hex string of a key that is not stored
UpdateOfAbsentKey(t, pk, m) ==
    /\ ~HexDecodeString(pk).err
    /\ HexDecodeString(pk).bytes \notin DOMAIN db
    /\ UpdateValidatorMetadata(t, pk, m, FALSE)

\* C39: UpdateValidatorMetadata for a validator public key that is not in
\* the share store is a no-op: it returns no error, creates no record and
\* leaves every stored share unchanged.
C39_UpdateAbsentNoOp ==
    [][\A t \in Threads, pk \in PkStrings, m \in NewMetadatas :
          UpdateOfAbsentKey(t, pk, m) =>
              /\ storeOp'.op = "update" /\ storeOp'.t = t
              /\ ~storeOp'.err /\ ~storeOp'.found
              /\ tpc'[t] = "idle"
              /\ db' = db]_vars

\* a share is stored, and an update for the key of another validator
\* returned without error and found nothing
C39_Witness ==
    /\ storeOp.op = "update"
    /\ ~storeOp.err
    /\ ~storeOp.found
    /\ storeOp.key # <<>>
    /\ storeOp.m # NilMetadata
    /\ db # EmptyMap
    /\ storeOp.key \notin DOMAIN db

(***************************************************************************)
(* Quorums of a committee: share.go ThresholdSize and PartialThresholdSize *)
(* for every committee size, and the signer sets of ThresholdSize members  *)
(* that can be drawn from the committee.                                   *)
(***************************************************************************)
MaxQuorumN == 7

\* the operator ids of a committee of n members
CommitteeIds(n) == 1..n

\* the signer sets of k members of a committee of n
SignerSets(n, k) == {S \in SUBSET CommitteeIds(n) : Cardinality(S) = k}

QuorumInit ==
    /\ qrN \in 1..MaxQuorumN
    /\ qrSizes = NoSizes
    /\ signersA = {}
    /\ signersB = {}
    /\ queue = EmptyMap
    /\ allMessages = EmptyMap
    /\ q = EmptyMap
    /\ msgs = EmptyMap
    /\ nextId = 1
    /\ purged = FALSE
    /\ lastOp = Op("new", NoKey, <<>>, NoRet, NoRet)
    /\ round = 0
    /\ startRound = 0
    /\ pqBucket = <<>>
    /\ storedOffset = NoOffset
    /\ head = defaultSyncOffset
    /\ pc = "idle"
    /\ providedOffset = Nil
    /\ syncOffset = Nil
    /\ cn = <<>>
    /\ syncEndedEvent = NoSyncEnded
    /\ syncWgDone = FALSE
    /\ execQueue = <<>>
    /\ qErrors = {}
    /\ result = "none"
    /\ delivered = {}
    /\ handled = {}
    /\ storedAtCall = NoOffset
    /\ share = <<>>
    /\ obj = <<>>
    /\ shareOut = <<>>
    /\ sizes = <<>>
    /\ db = <<>>
    /\ lock = 0
    /\ tpc = <<>>
    /\ tloc = <<>>
    /\ stale = {}
    /\ storeOp = <<>>
    /\ instances = <<>>
    /\ net = <<>>
    /\ decidedCh = <<>>
    /\ injected = 0
    /\ decidedStore = <<>>
    /\ highestKnown = 0
    /\ startHeight = 0
    /\ peerHeight = <<>>
    /\ usablePeers = {}
    /\ dsPc = "idle"
    /\ dsPeer = 0
    /\ dsMax = 0
    /\ dsFrom = 0
    /\ lastBatch = <<>>
    /\ msgMutex = 0
    /\ lpc = <<>>
    /\ lloc = <<>>
    /\ added = <<>>
    /\ popped = <<>>
    /\ vShare = <<>>
    /\ signedMsg = <<>>
    /\ pksOut = <<>>
    /\ verifyOut = <<>>
    /\ wStart = 0
    /\ wLimit = 0
    /\ wStopAtLimit = FALSE
    /\ wMin = 0
    /\ interval = 0
    /\ wpc = "idle"
    /\ wN = 0
    /\ wSteps = 0
    /\ wCtxDone = FALSE
    /\ cfgTopics = {}
    /\ psSubscribedTopics = <<>>
    /\ psTopicsLock = <<>>
    /\ ctxDone = FALSE
    /\ listeners = <<>>
    /\ cancels = <<>>
    /\ callers = <<>>
    /\ mainWaiting = <<>>
    /\ mainRunning = 0
    /\ tgPc = <<>>
    /\ validatorShares = {}
    /\ ibftSyncEnabled = FALSE
    /\ eqStop = FALSE
    /\ eqQueue = <<>>
    /\ eqLock = 0
    /\ eqPc = <<>>
    /\ eqLoc = <<>>
    /\ eqNext = 0
    /\ eqAccepted = <<>>
    /\ eqReturned = <<>>
    /\ eqLast = <<>>
    /\ suPc = "idle"
    /\ suPk = 0
    /\ suSyncs = <<>>
    /\ suResult = "none"
    /\ networkReadersQueue = {}
    /\ decidedReadersQueue = {}
    /\ suQueued = FALSE

\* ThresholdSize() and PartialThresholdSize() of the committee
QuorumSizes ==
    /\ qrSizes.n = 0
    /\ qrSizes' = [n |-> qrN, threshold |-> ThresholdSize(qrN),
                   partial |-> PartialThresholdSize(qrN)]
    /\ UNCHANGED <<qrN, signersA, signersB>>

\* two signer sets of ThresholdSize members each sign
DrawSigners ==
    /\ qrSizes.n # 0
    /\ \E A \in SignerSets(qrN, qrSizes.threshold),
          B \in SignerSets(qrN, qrSizes.threshold) :
          /\ signersA' = A
          /\ signersB' = B
    /\ UNCHANGED <<qrN, qrSizes>>

QuorumNext ==
    \/ QuorumSizes /\ UNCHANGED <<brokerVars, pqVars, syncVars, shareVars, storeVars, ibftVars, dsyncVars, concVars, verifyVars, waitVars, topicVars, execVars, evqVars, setupVars>>
    \/ DrawSigners /\ UNCHANGED <<brokerVars, pqVars, syncVars, shareVars, storeVars, ibftVars, dsyncVars, concVars, verifyVars, waitVars, topicVars, execVars, evqVars, setupVars>>

SpecQuorum == QuorumInit /\ [][QuorumNext]_vars

\* C40: for every committee size n >= 1, 2 * ThresholdSize - n is at least
\* PartialThresholdSize and ThresholdSize is at most n, so a signer set of
\* ThresholdSize members exists and any two of them share at least
\* PartialThresholdSize members.
C40_QuorumIntersection ==
    qrSizes.n # 0 =>
        /\ qrSizes.n = qrN
        /\ qrSizes.threshold = ThresholdSize(qrN)
        /\ qrSizes.partial = PartialThresholdSize(qrN)
        /\ 2 * qrSizes.threshold - qrN >= qrSizes.partial
        /\ qrSizes.threshold <= qrN
        /\ SignerSets(qrN, qrSizes.threshold) # {}
        /\ signersA # {} =>
              Cardinality(signersA \cap signersB) >= qrSizes.partial

\* two quorums of a committee of 7 that share exactly PartialThresholdSize
\* members
C40_Witness ==
    /\ qrN = MaxQuorumN
    /\ qrSizes.threshold = ThresholdSize(qrN)
    /\ Cardinality(signersA) = qrSizes.threshold
    /\ Cardinality(signersB) = qrSizes.threshold
    /\ signersA # signersB
    /\ Cardinality(signersA \cap signersB) = qrSizes.partial

====
